---- MODULE Spec2Model ----
(***************************************************************************)
(* Booking orchestration core of the dental agent backend                  *)
(* (src/backend/server.js over src/backend/utils/database-manager.js).     *)
(*                                                                         *)
(* The stores are the three JSON collections patients, appointments and    *)
(* availableSlots.  Every operation reads all collections (readDatabase),  *)
(* mutates the in-memory copy and, on its success path only, writes the    *)
(* copy back (writeDatabase).  Spec runs the operations one at a time.     *)
(***************************************************************************)
EXTENDS Integers, Sequences, FiniteSets, TLC

(***************************************************************************)
(* Bounds of the model.                                                    *)
(***************************************************************************)
MaxAppts == 2
MaxPatients == 3
MaxClock == 1
MaxMembers == 2
MaxReschedules == 1
MaxPartyAppts == 4
MaxPartyPatients == 4
MaxTokens == 2
MaxAlerts == 2
MaxRegistry == 5
MaxMinutes == 12
MaxChats == 11

(***************************************************************************)
(* Time labels.  A label is a JavaScript string; CodeUnits gives its       *)
(* UTF-16 code units, which is what Array.prototype.sort() without a       *)
(* comparator and the hour parsing of getAvailableSlots work on.           *)
(***************************************************************************)
Labels == {"9:00 AM", "10:00 AM", "2:00 PM"}

CodeUnits(label) ==
  CASE label = "9:00 AM"  -> <<57, 58, 48, 48, 32, 65, 77>>
    [] label = "10:00 AM" -> <<49, 48, 58, 48, 48, 32, 65, 77>>
    [] label = "2:00 PM"  -> <<50, 58, 48, 48, 32, 80, 77>>

RECURSIVE UnitsLess(_, _)
UnitsLess(a, b) ==
  IF b = <<>> THEN FALSE
  ELSE IF a = <<>> THEN TRUE
  ELSE IF Head(a) # Head(b) THEN Head(a) < Head(b)
  ELSE UnitsLess(Tail(a), Tail(b))

\* the order of slots.sort(): strings compared by code units
StrLess(x, y) == UnitsLess(CodeUnits(x), CodeUnits(y))

RECURSIVE InsertSorted(_, _)
InsertSorted(sorted, x) ==
  IF sorted = <<>> THEN <<x>>
  ELSE IF StrLess(x, Head(sorted)) THEN <<x>> \o sorted
  ELSE <<Head(sorted)>> \o InsertSorted(Tail(sorted), x)

RECURSIVE SortSlots(_)
SortSlots(slots) ==
  IF slots = <<>> THEN <<>>
  ELSE InsertSorted(SortSlots(SubSeq(slots, 1, Len(slots) - 1)), slots[Len(slots)])

\* parseInt(time.split(':')[0]): the decimal digits before the first ':'
RECURSIVE ParseHour(_, _)
ParseHour(units, acc) ==
  IF units = <<>> \/ Head(units) < 48 \/ Head(units) > 57 THEN acc
  ELSE ParseHour(Tail(units), 10 * acc + (Head(units) - 48))

\* time.includes('PM')
IsPM(label) ==
  LET u == CodeUnits(label)
  IN \E i \in 1..(Len(u) - 1) : u[i] = 80 /\ u[i + 1] = 77

Hour24(label) ==
  LET hour == ParseHour(CodeUnits(label), 0)
  IN IF IsPM(label) /\ hour # 12 THEN hour + 12
     ELSE IF hour = 12 /\ ~IsPM(label) THEN 0
     ELSE hour

(***************************************************************************)
(* Names.  Lower models String.prototype.toLowerCase on the names used.    *)
(***************************************************************************)
Lower(name) ==
  CASE name = "Ann" -> "ann"
    [] name = "Bob" -> "bob"
    [] name = "Cy"  -> "cy"
    [] name = "Di"  -> "di"
    [] OTHER -> name

\* Array.prototype.includes
Includes(seq, x) == \E i \in DOMAIN seq : seq[i] = x

\* number of occurrences of x in seq
Count(seq, x) == Cardinality({i \in DOMAIN seq : seq[i] = x})

\* Array.prototype.filter(s => s !== x)
RECURSIVE Without(_, _)
Without(seq, x) ==
  IF seq = <<>> THEN <<>>
  ELSE IF Head(seq) = x THEN Without(Tail(seq), x)
  ELSE <<Head(seq)>> \o Without(Tail(seq), x)

(***************************************************************************)
(* The stores.                                                             *)
(***************************************************************************)
VARIABLES
  patients,        \* patients.json: sequence of patient records
  appointments,    \* appointments.json: sequence of appointment records
  availableSlots,  \* available-slots.json: sequence of [date, slots]
  now,             \* the clock value last returned by Date.now()
  moves,           \* number of reschedules so far (bounds the model)
  last,            \* the last call: operation, arguments and result
  emergencyAlerts, \* emergency-alerts.json: sequence of alert records
  inflight,        \* the chat requests being served: what each read, where it is
  turn,            \* the conversational turn being served: its action tokens,
                   \* what ran, the session's patient and the response
  registered,      \* history: the ids of the patients created by registration
  conversationContexts, \* the in-memory map: conversation id -> context
  sessionCache,    \* the sessions: conversation id -> the session's context
  chats            \* number of chat requests so far (bounds the model)

\* the state of the conversations
chatVars == <<conversationContexts, sessionCache, chats>>

vars == <<patients, appointments, availableSlots, now, moves, last,
          emergencyAlerts, inflight, turn, registered,
          conversationContexts, sessionCache, chats>>

Stores == [patients |-> patients, appointments |-> appointments,
           availableSlots |-> availableSlots]

\* dates are ISO day strings; new Date(d) orders them as the day numbers do
SeededDates == {1, 2}
\* day 0 has no SlotDay
Dates == SeededDates \cup {0}

SeedSlots(date) ==
  IF date = 1 THEN <<"9:00 AM", "10:00 AM">>
  ELSE <<"9:00 AM", "10:00 AM", "2:00 PM">>

SeedPatients ==
  << [id |-> 1, fullName |-> "Ann", phone |-> "5551110000",
      dateOfBirth |-> "08272000", insurance |-> "Aetna", familyMembers |-> <<>>],
     [id |-> 2, fullName |-> "Bob", phone |-> "5552220000",
      dateOfBirth |-> "01151990", insurance |-> "Cigna", familyMembers |-> <<>>] >>

NoId == [kind |-> "none", n |-> 0, idx |-> 0]
NoPrior == [date |-> 0, time |-> ""]

\* what is observed of a call: the operation, its result and the arguments
\* that the result carries
NoCall ==
  [op |-> "init", ok |-> FALSE, tag |-> "", id |-> NoId, patientId |-> 0,
   members |-> <<>>, date |-> 0, time |-> "", created |-> <<>>,
   needed |-> 0, altDate |-> 0, altSlots |-> <<>>]

\* Array.prototype.find on a collection: index of the first match, 0 if none
\* matches is the set of the indices that pass the test
FirstIndex(matches) ==
  IF matches = {} THEN 0 ELSE CHOOSE i \in matches : \A j \in matches : i <= j

DayIndex(slotDays, date) ==
  FirstIndex({i \in DOMAIN slotDays : slotDays[i].date = date})

PatientIndex(pats, patientId) ==
  FirstIndex({i \in DOMAIN pats : pats[i].id = patientId})

AppointmentIndex(appts, appointmentId) ==
  FirstIndex({i \in DOMAIN appts : appts[i].id = appointmentId})

\* a release that leaves the day's list as it was
ReleaseSlotSkipped(slotDays, date, time) == slotDays

\* a release that pushes the label whether the list has it or not
ReleaseSlotUnchecked(slotDays, date, time) ==
  LET d == DayIndex(slotDays, date)
  IN IF d # 0 THEN [slotDays EXCEPT ![d].slots = SortSlots(Append(@, time))]
     ELSE slotDays

\* if (daySlots && !daySlots.slots.includes(time)) { push(time); sort(); }
ReleaseSlot(slotDays, date, time) ==
  LET d == DayIndex(slotDays, date)
  IN IF d # 0 /\ ~Includes(slotDays[d].slots, time)
     THEN [slotDays EXCEPT ![d].slots = SortSlots(Append(@, time))]
     ELSE slotDays

\* daySlots.slots = daySlots.slots.filter(s => s !== time)
ReserveSlot(slotDays, date, time) ==
  LET d == DayIndex(slotDays, date)
  IN [slotDays EXCEPT ![d].slots = Without(@, time)]

\* a soft-cancel that records no reason
SoftCancelNoReason(a, reason) == [a EXCEPT !.status = "cancelled"]

\* a.status = 'cancelled'; a.cancelReason = reason  (no reason: "")
SoftCancel(a, reason) == [a EXCEPT !.status = "cancelled", !.cancelReason = reason]

\* the overwrite loops over the appointments a filter kept (targets, their
\* indices): release the slot and soft-cancel, in ledger order
RECURSIVE Overwrite(_, _, _, _)
Overwrite(db, targets, reason, i) ==
  IF i > Len(db.appointments) THEN db
  ELSE LET a == db.appointments[i]
       IN IF i \in targets
          THEN Overwrite(
                 [db EXCEPT !.availableSlots = ReleaseSlot(@, a.date, a.time),
                            !.appointments[i] = SoftCancel(a, reason)],
                 targets, reason, i + 1)
          ELSE Overwrite(db, targets, reason, i + 1)

\* a returned result; db is what the stores hold once the call has returned
Failure(tag, db) == [ok |-> FALSE, tag |-> tag, db |-> db, created |-> <<>>,
                     needed |-> 0, altDate |-> 0, altSlots |-> <<>>]
Success(tag, db, created) == [ok |-> TRUE, tag |-> tag, db |-> db, created |-> created,
                              needed |-> 0, altDate |-> 0, altSlots |-> <<>>]

(***************************************************************************)
(* bookAppointment                                                         *)
(***************************************************************************)
\* a booking that checks the slot before it overwrites
bookAppointmentCheckingFirst(db, patientId, patientName, date, time) ==
  LET p == PatientIndex(db.patients, patientId)
  IN IF p = 0 THEN Failure("patient_not_found", db)
     ELSE IF db.patients[p].fullName # patientName THEN Failure("name_mismatch", db)
     ELSE
       LET SameDay(a) == a.patientId = patientId /\ a.date = date /\ a.status # "cancelled"
           sameDayAppointments ==
             {i \in DOMAIN db.appointments : SameDay(db.appointments[i])}
           db1 == Overwrite(db, sameDayAppointments, "overwritten_by_new_booking", 1)
           d == DayIndex(db.availableSlots, date)
       IN IF d = 0 \/ ~Includes(db.availableSlots[d].slots, time)
          THEN Failure("slot_unavailable", db)
          ELSE
            LET appointment ==
                  [id |-> [kind |-> "seq", n |-> Len(db1.appointments) + 1, idx |-> 0],
                   patientId |-> patientId, patientName |-> patientName,
                   relationship |-> "", date |-> date, time |-> time,
                   status |-> "scheduled", cancelReason |-> "",
                   rescheduledFrom |-> NoPrior]
            IN Success("booked",
                 [db1 EXCEPT !.appointments = Append(@, appointment),
                             !.availableSlots = ReserveSlot(@, date, time)],
                 <<appointment>>)

\* a booking whose early return writes the overwrite it made on its copy
bookAppointmentWritingOverwrite(db, patientId, patientName, date, time) ==
  LET p == PatientIndex(db.patients, patientId)
  IN IF p = 0 THEN Failure("patient_not_found", db)
     ELSE IF db.patients[p].fullName # patientName THEN Failure("name_mismatch", db)
     ELSE
       LET SameDay(a) == a.patientId = patientId /\ a.date = date /\ a.status # "cancelled"
           sameDayAppointments ==
             {i \in DOMAIN db.appointments : SameDay(db.appointments[i])}
           db1 == Overwrite(db, sameDayAppointments, "overwritten_by_new_booking", 1)
           d == DayIndex(db1.availableSlots, date)
       IN IF d = 0 \/ ~Includes(db1.availableSlots[d].slots, time)
          THEN Failure("slot_unavailable", db1)
          ELSE
            LET appointment ==
                  [id |-> [kind |-> "seq", n |-> Len(db1.appointments) + 1, idx |-> 0],
                   patientId |-> patientId, patientName |-> patientName,
                   relationship |-> "", date |-> date, time |-> time,
                   status |-> "scheduled", cancelReason |-> "",
                   rescheduledFrom |-> NoPrior]
            IN Success("booked",
                 [db1 EXCEPT !.appointments = Append(@, appointment),
                             !.availableSlots = ReserveSlot(@, date, time)],
                 <<appointment>>)

bookAppointment(db, patientId, patientName, date, time) ==
  LET p == PatientIndex(db.patients, patientId)
  IN IF p = 0 THEN Failure("patient_not_found", db)
     ELSE IF db.patients[p].fullName # patientName THEN Failure("name_mismatch", db)
     ELSE
       LET SameDay(a) == a.patientId = patientId /\ a.date = date /\ a.status # "cancelled"
           sameDayAppointments ==
             {i \in DOMAIN db.appointments : SameDay(db.appointments[i])}
           db1 == Overwrite(db, sameDayAppointments, "overwritten_by_new_booking", 1)
           d == DayIndex(db1.availableSlots, date)
       IN IF d = 0 \/ ~Includes(db1.availableSlots[d].slots, time)
          THEN Failure("slot_unavailable", db)
          ELSE
            LET appointment ==
                  [id |-> [kind |-> "seq", n |-> Len(db1.appointments) + 1, idx |-> 0],
                   patientId |-> patientId, patientName |-> patientName,
                   relationship |-> "", date |-> date, time |-> time,
                   status |-> "scheduled", cancelReason |-> "",
                   rescheduledFrom |-> NoPrior]
            IN Success("booked",
                 [db1 EXCEPT !.appointments = Append(@, appointment),
                             !.availableSlots = ReserveSlot(@, date, time)],
                 <<appointment>>)

(***************************************************************************)
(* cancelAppointment                                                       *)
(***************************************************************************)
\* a cancel without the check of the status
cancelAppointmentAgain(db, appointmentId) ==
  LET i == AppointmentIndex(db.appointments, appointmentId)
  IN IF i = 0 THEN Failure("not_found", db)
     ELSE
       LET a == db.appointments[i]
       IN Success("cancelled",
            [db EXCEPT !.availableSlots = ReleaseSlot(@, a.date, a.time),
                       !.appointments[i] = SoftCancel(a, a.cancelReason)],
            <<>>)

cancelAppointment(db, appointmentId) ==
  LET i == AppointmentIndex(db.appointments, appointmentId)
  IN IF i = 0 THEN Failure("not_found", db)
     ELSE IF db.appointments[i].status = "cancelled" THEN Failure("already_cancelled", db)
     ELSE
       LET a == db.appointments[i]
       IN Success("cancelled",
            [db EXCEPT !.availableSlots = ReleaseSlot(@, a.date, a.time),
                       !.appointments[i] = SoftCancel(a, a.cancelReason)],
            <<>>)


(***************************************************************************)
(* cancelAllAppointments                                                   *)
(***************************************************************************)
\* a cancelAll that stops after the patient's first active appointment
cancelFirstAppointment(db, patientId) ==
  LET active == {i \in DOMAIN db.appointments :
                   /\ db.appointments[i].patientId = patientId
                   /\ db.appointments[i].status # "cancelled"}
  IN IF active = {} THEN Failure("no_active_appointments", db)
     ELSE Success("cancelled_all", Overwrite(db, {FirstIndex(active)}, "", 1), <<>>)

cancelAllAppointments(db, patientId) ==
  LET Active(a) == a.patientId = patientId /\ a.status # "cancelled"
  IN IF ~\E i \in DOMAIN db.appointments : Active(db.appointments[i])
     THEN Failure("no_active_appointments", db)
     ELSE Success("cancelled_all",
            Overwrite(db, {i \in DOMAIN db.appointments : Active(db.appointments[i])},
                      "", 1),
            <<>>)

(***************************************************************************)
(* rescheduleAppointment                                                   *)
(***************************************************************************)
\* a reschedule that puts the appointment back on the schedule
rescheduleAndRevive(db, appointmentId, newDate, newTime) ==
  LET i == AppointmentIndex(db.appointments, appointmentId)
      nd == DayIndex(db.availableSlots, newDate)
  IN IF i = 0 THEN Failure("not_found", db)
     ELSE IF nd = 0 \/ ~Includes(db.availableSlots[nd].slots, newTime)
     THEN Failure("slot_unavailable", db)
     ELSE
       LET a == db.appointments[i]
           released == ReleaseSlot(db.availableSlots, a.date, a.time)
           moved == [a EXCEPT !.date = newDate, !.time = newTime,
                              !.status = "scheduled",
                              !.rescheduledFrom = [date |-> a.date, time |-> a.time]]
       IN Success("rescheduled",
            [db EXCEPT !.availableSlots = ReserveSlot(released, newDate, newTime),
                       !.appointments[i] = moved],
            <<moved>>)

rescheduleAppointment(db, appointmentId, newDate, newTime) ==
  LET i == AppointmentIndex(db.appointments, appointmentId)
      nd == DayIndex(db.availableSlots, newDate)
  IN IF i = 0 THEN Failure("not_found", db)
     ELSE IF nd = 0 \/ ~Includes(db.availableSlots[nd].slots, newTime)
     THEN Failure("slot_unavailable", db)
     ELSE
       LET a == db.appointments[i]
           released == ReleaseSlot(db.availableSlots, a.date, a.time)
           moved == [a EXCEPT !.date = newDate, !.time = newTime,
                              !.rescheduledFrom = [date |-> a.date, time |-> a.time]]
       IN Success("rescheduled",
            [db EXCEPT !.availableSlots = ReserveSlot(released, newDate, newTime),
                       !.appointments[i] = moved],
            <<moved>>)

(***************************************************************************)
(* bookFamilyAppointments                                                  *)
(***************************************************************************)
\* member.name.trim().length etc.; the strings used carry no white space
TrimLength(str) == Len(str)

ValidMember(member) ==
  /\ TrimLength(member.name) >= 2
  /\ TrimLength(member.relationship) >= 2
  /\ TrimLength(member.appointmentType) >= 2

\* a lookup that compares the names as they are typed
FamilyPatientIndexAsTyped(pats, member, phone) ==
  FirstIndex({i \in DOMAIN pats :
                pats[i].fullName = member.name /\ pats[i].phone = phone})

\* db.patients.find(p => p.fullName.toLowerCase() === member.name.toLowerCase()
\*                       && p.phone === primaryPatient.phone)
FamilyPatientIndex(pats, member, phone) ==
  LET Same(p) == Lower(p.fullName) = Lower(member.name) /\ p.phone = phone
  IN FirstIndex({i \in DOMAIN pats : Same(pats[i])})

\* a pre-emption of the primary's appointments only
candidatesPrimaryOnly(db, primaryPatientId, familyMembers) == {primaryPatientId}

\* a pre-emption of every patient's appointments of the day
candidatesEveryPatient(db, primaryPatientId, familyMembers) ==
  {db.patients[i].id : i \in DOMAIN db.patients}

candidatesToOverwrite(db, primaryPatientId, familyMembers) ==
  LET phone == db.patients[PatientIndex(db.patients, primaryPatientId)].phone
  IN {primaryPatientId} \cup
     { db.patients[FamilyPatientIndex(db.patients, familyMembers[k], phone)].id :
         k \in {m \in DOMAIN familyMembers :
                  FamilyPatientIndex(db.patients, familyMembers[m], phone) # 0} }

\* a capacity check that refuses a day with exactly the slots needed
InsufficientSlotsInclusive(slotDays, preferredDate, totalSlotsNeeded) ==
  LET d == DayIndex(slotDays, preferredDate)
  IN d = 0 \/ Len(slotDays[d].slots) <= totalSlotsNeeded

\* the capacity check of the preferred day
InsufficientSlots(slotDays, preferredDate, totalSlotsNeeded) ==
  LET d == DayIndex(slotDays, preferredDate)
  IN d = 0 \/ Len(slotDays[d].slots) < totalSlotsNeeded

\* a search that takes the first later day whatever it has open
nextAvailableAnyLater(slotDays, preferredDate, totalSlotsNeeded) ==
  LET Later(s) == s.date > preferredDate
  IN FirstIndex({i \in DOMAIN slotDays : Later(slotDays[i])})

\* db.availableSlots.find(s => new Date(s.date) > new Date(preferredDate)
\*                             && s.slots.length >= totalSlotsNeeded)
nextAvailable(slotDays, preferredDate, totalSlotsNeeded) ==
  LET Fits(s) == s.date > preferredDate /\ Len(s.slots) >= totalSlotsNeeded
  IN FirstIndex({i \in DOMAIN slotDays : Fits(slotDays[i])})

\* slots.slice(0, n)
SliceFirst(seq, n) == SubSeq(seq, 1, IF n < Len(seq) THEN n ELSE Len(seq))

\* a refusal that writes the pre-empted copy before it returns
capacityFailureAfterWrite(stored, working, preferredDate, totalSlotsNeeded) ==
  LET alt == nextAvailable(working.availableSlots, preferredDate, totalSlotsNeeded)
  IN IF alt # 0
     THEN [Failure("insufficient_slots", working) EXCEPT
             !.needed = totalSlotsNeeded,
             !.altDate = working.availableSlots[alt].date,
             !.altSlots = SliceFirst(working.availableSlots[alt].slots, totalSlotsNeeded)]
     ELSE Failure("no_capacity", working)

\* the return of a family booking that found too few open slots: stored is
\* what was read from the files, working the copy after the pre-emption
capacityFailure(stored, working, preferredDate, totalSlotsNeeded) ==
  LET alt == nextAvailable(working.availableSlots, preferredDate, totalSlotsNeeded)
  IN IF alt # 0
     THEN [Failure("insufficient_slots", stored) EXCEPT
             !.needed = totalSlotsNeeded,
             !.altDate = working.availableSlots[alt].date,
             !.altSlots = SliceFirst(working.availableSlots[alt].slots, totalSlotsNeeded)]
     ELSE Failure("no_capacity", stored)

\* the loop over the listed members; st.idx is currentSlotIndex
RECURSIVE FamilyLoop(_, _, _, _, _, _)
FamilyLoop(st, familyMembers, k, primaryIndex, preferredDate, clock) ==
  IF k > Len(familyMembers) THEN st
  ELSE
    LET d == DayIndex(st.db.availableSlots, preferredDate)
        slots == st.db.availableSlots[d].slots
    IN IF st.idx >= Len(slots) THEN st
       ELSE
         LET member == familyMembers[k]
             primary == st.db.patients[primaryIndex]
             found == FamilyPatientIndex(st.db.patients, member, primary.phone)
             newPatient == [id |-> Len(st.db.patients) + 1, fullName |-> member.name,
                            phone |-> primary.phone,
                            dateOfBirth |-> primary.dateOfBirth,
                            insurance |-> primary.insurance,
                            familyMembers |-> <<>>]
             pats1 == IF found = 0 THEN Append(st.db.patients, newPatient)
                      ELSE st.db.patients
             memberId == IF found = 0 THEN newPatient.id ELSE st.db.patients[found].id
             appointment ==
               [id |-> [kind |-> "member", n |-> clock, idx |-> st.idx],
                patientId |-> memberId, patientName |-> member.name,
                relationship |-> member.relationship, date |-> preferredDate,
                time |-> slots[st.idx + 1], status |-> "confirmed",
                cancelReason |-> "", rescheduledFrom |-> NoPrior]
             HasRef(fm) == fm.name = member.name
             pats2 == IF ~\E i \in DOMAIN pats1[primaryIndex].familyMembers :
                            HasRef(pats1[primaryIndex].familyMembers[i])
                      THEN [pats1 EXCEPT ![primaryIndex].familyMembers =
                              Append(@, [name |-> member.name,
                                         relationship |-> member.relationship])]
                      ELSE pats1
         IN FamilyLoop(
              [db |-> [st.db EXCEPT !.patients = pats2,
                                    !.appointments = Append(@, appointment)],
               booked |-> Append(st.booked, appointment),
               idx |-> st.idx + 1],
              familyMembers, k + 1, primaryIndex, preferredDate, clock)

bookFamilyAppointments(db, primaryPatientId, familyMembers, preferredDate, clock) ==
  LET p == PatientIndex(db.patients, primaryPatientId)
      totalSlotsNeeded == Len(familyMembers) + 1
  IN IF p = 0 THEN Failure("primary_not_found", db)
     ELSE IF Len(familyMembers) = 0 THEN Failure("members_required", db)
     ELSE IF \E k \in DOMAIN familyMembers : ~ValidMember(familyMembers[k])
     THEN Failure("invalid_member", db)
     ELSE
       LET candidates == candidatesToOverwrite(db, primaryPatientId, familyMembers)
           SameDay(a) == /\ a.date = preferredDate
                         /\ a.status # "cancelled"
                         /\ a.patientId \in candidates
           sameDayAppointments ==
             {i \in DOMAIN db.appointments : SameDay(db.appointments[i])}
           db1 == Overwrite(db, sameDayAppointments, "overwritten_by_family_booking", 1)
       IN IF InsufficientSlots(db1.availableSlots, preferredDate, totalSlotsNeeded)
          THEN capacityFailure(db, db1, preferredDate, totalSlotsNeeded)
          ELSE
            LET d == DayIndex(db1.availableSlots, preferredDate)
                primaryAppointment ==
                  [id |-> [kind |-> "primary", n |-> clock, idx |-> 0],
                   patientId |-> primaryPatientId,
                   patientName |-> db1.patients[p].fullName,
                   relationship |-> "", date |-> preferredDate,
                   time |-> db1.availableSlots[d].slots[1], status |-> "confirmed",
                   cancelReason |-> "", rescheduledFrom |-> NoPrior]
                st == FamilyLoop(
                        [db |-> [db1 EXCEPT !.appointments = Append(@, primaryAppointment)],
                         booked |-> <<primaryAppointment>>, idx |-> 1],
                        familyMembers, 1, p, preferredDate, clock)
                \* dateSlots.slots = dateSlots.slots.slice(bookedAppointments.length)
                rest == [st.db.availableSlots EXCEPT ![d].slots =
                           SubSeq(@, Len(st.booked) + 1, Len(@))]
            IN [Success("family_booked", [st.db EXCEPT !.availableSlots = rest],
                        st.booked) EXCEPT !.needed = totalSlotsNeeded]

(***************************************************************************)
(* One call.  Every operation reads the stores, works on its copy and      *)
(* writes the copy back with writeDatabase on its success path only; an    *)
(* early return writes nothing.  r.db is what the stores hold once the     *)
(* call has returned, seen the arguments of the call: all of them for a    *)
(* call that wrote, and for one that returned early those that identify    *)
(* the record or the party it was about.                                   *)
(***************************************************************************)
CommitWithin(r, seen, clock, maxAppts, maxPatients) ==
  /\ Len(r.db.appointments) <= maxAppts
  /\ Len(r.db.patients) <= maxPatients
  /\ patients' = r.db.patients
  /\ appointments' = r.db.appointments
  /\ availableSlots' = r.db.availableSlots
  /\ last' = [seen EXCEPT !.ok = r.ok, !.tag = r.tag, !.created = r.created,
                          !.needed = r.needed, !.altDate = r.altDate,
                          !.altSlots = r.altSlots]
  /\ now' = clock
  /\ UNCHANGED <<emergencyAlerts, inflight, turn, registered, chatVars>>

Commit(r, seen, clock) == CommitWithin(r, seen, clock, MaxAppts, MaxPatients)

\* the arguments the calls are made with
\* patient 0 is not on file
BookerPool == {0, 1, 2}
PrimaryPool == {0, 1}
NamePool == {"Ann", "Bob"}

Cy == [name |-> "Cy", relationship |-> "son", appointmentType |-> "Cleaning"]
Di == [name |-> "Di", relationship |-> "daughter", appointmentType |-> "Checkup"]
Unnamed == [name |-> "X", relationship |-> "son", appointmentType |-> "Cleaning"]
MemberPool == {Cy, Di}
MemberLists ==
  UNION {[1..n -> MemberPool] : n \in 0..MaxMembers} \cup {<<Unnamed>>, <<Cy, Unnamed>>}

KnownIds == {appointments[i].id : i \in DOMAIN appointments}
UnknownAppointmentId == [kind |-> "seq", n |-> 0, idx |-> 0]
AppointmentIdPool == KnownIds \cup {UnknownAppointmentId}

BookCall(accepted) ==
  \E patientId \in BookerPool, patientName \in NamePool, date \in Dates, time \in Labels :
    \E r \in {bookAppointment(Stores, patientId, patientName, date, time)} :
       /\ r.ok = accepted
       /\ Commit(r, IF accepted \/ r.tag = "slot_unavailable"
                     THEN [NoCall EXCEPT !.op = "book", !.patientId = patientId,
                                         !.date = date, !.time = time]
                     ELSE [NoCall EXCEPT !.op = "book"], now)
       /\ UNCHANGED moves

CancelCall(accepted) ==
  \E appointmentId \in AppointmentIdPool :
    \E r \in {cancelAppointment(Stores, appointmentId)} :
       /\ r.ok = accepted
       /\ Commit(r, [NoCall EXCEPT !.op = "cancel", !.id = appointmentId], now)
       /\ UNCHANGED moves

CancelAllCall(accepted) ==
  \E patientId \in BookerPool :
    \E r \in {cancelAllAppointments(Stores, patientId)} :
       /\ r.ok = accepted
       /\ Commit(r, [NoCall EXCEPT !.op = "cancelAll", !.patientId = patientId], now)
       /\ UNCHANGED moves

RescheduleCall(accepted) ==
  \E appointmentId \in AppointmentIdPool, newDate \in Dates, newTime \in Labels :
    \E r \in {rescheduleAppointment(Stores, appointmentId, newDate, newTime)} :
       /\ r.ok = accepted
       /\ accepted => moves < MaxReschedules
       /\ Commit(r, [NoCall EXCEPT !.op = "reschedule", !.id = appointmentId,
                                   !.date = newDate, !.time = newTime], now)
       /\ moves' = IF accepted THEN moves + 1 ELSE moves

\* Date.now() is read after the capacity check; the clock never runs backwards
BookFamilyCall(accepted) ==
  \E primaryPatientId \in PrimaryPool, familyMembers \in MemberLists,
     preferredDate \in Dates, clock \in (IF accepted THEN now..MaxClock ELSE {now}) :
    \E r \in {bookFamilyAppointments(Stores, primaryPatientId, familyMembers,
                                     preferredDate, clock)} :
       /\ r.ok = accepted
       /\ Commit(r, IF accepted \/ r.tag \in {"insufficient_slots", "no_capacity"}
                     THEN [NoCall EXCEPT !.op = "bookFamily",
                                         !.patientId = primaryPatientId,
                                         !.members = familyMembers,
                                         !.date = preferredDate]
                     ELSE [NoCall EXCEPT !.op = "bookFamily"], clock)
       /\ UNCHANGED moves

\* the calls that reach writeDatabase
Book == BookCall(TRUE)
Cancel == CancelCall(TRUE)
CancelAll == CancelAllCall(TRUE)
Reschedule == RescheduleCall(TRUE)
BookFamily == BookFamilyCall(TRUE)

\* the calls that return early
BookRejected == BookCall(FALSE)
CancelRejected == CancelCall(FALSE)
BookFamilyRejected == BookFamilyCall(FALSE)

\* the conversation ids of the requests; an id the stores do not know has
\* no context
ConversationIds == {"c1"}
NoContext == <<>>

SeedDays(order) ==
  [i \in DOMAIN order |-> [date |-> order[i], slots |-> SeedSlots(order[i])]]

\* the two chat requests that can be in flight at a time
Requests == {1, 2}

NoDb == [patients |-> <<>>, appointments |-> <<>>, availableSlots |-> <<>>]

\* a request that has not arrived
Idle == [pc |-> "idle", op |-> "", patientId |-> 0, patientName |-> "", date |-> 0,
         time |-> "", id |-> NoId, db |-> NoDb, ok |-> FALSE, tag |-> "",
         created |-> <<>>, alerts |-> <<>>]

\* base: the stores as they were when the first of the requests arrived
NoFlight == [base |-> NoDb, req |-> [q \in Requests |-> Idle]]

\* no turn served yet, no patient remembered by the session
NoTurn == [state |-> "idle", tokens |-> <<>>, next |-> 1, executed |-> <<>>,
           invocations |-> <<>>, bare |-> FALSE, response |-> "",
           patientId |-> 0, patientName |-> ""]

InitStores(order) ==
  /\ patients = SeedPatients
  /\ appointments = <<>>
  /\ availableSlots = SeedDays(order)
  /\ now = 0
  /\ moves = 0
  /\ last = NoCall
  /\ emergencyAlerts = <<>>
  /\ inflight = NoFlight
  /\ turn = NoTurn
  /\ registered = {SeedPatients[i].id : i \in DOMAIN SeedPatients}
  /\ conversationContexts = [convId \in ConversationIds |-> NoContext]
  /\ sessionCache = [convId \in ConversationIds |-> NoContext]
  /\ chats = 0

\* a family booking on a ledger that already holds bookings of its party;
\* the names come as typed, in either letter case
LowerCy == [name |-> "cy", relationship |-> "son", appointmentType |-> "Cleaning"]
LowerAnn == [name |-> "ann", relationship |-> "wife", appointmentType |-> "Checkup"]
PartyPool == {Cy, Di, LowerCy, LowerAnn}
PartyLists == UNION {[1..n -> PartyPool] : n \in 1..MaxMembers}

BookParty ==
  \E familyMembers \in PartyLists, preferredDate \in SeededDates :
    \E r \in {bookFamilyAppointments(Stores, 1, familyMembers, preferredDate, now)} :
       /\ r.ok
       /\ CommitWithin(r, [NoCall EXCEPT !.op = "bookFamily", !.patientId = 1,
                                         !.members = familyMembers,
                                         !.date = preferredDate],
                       now, MaxPartyAppts, MaxPartyPatients)
       /\ UNCHANGED moves

\* the seed file lists the days in ascending date order ...
Init == InitStores(<<1, 2>>)

\* ... or in any other order
InitAnyOrder == \E order \in {<<1, 2>>, <<2, 1>>} : InitStores(order)

Next == Book \/ Cancel \/ CancelAll \/ Reschedule \/ BookFamily

\* the serialized operations, observed when they change the stores
Spec == Init /\ [][Next]_vars

NextReturns ==
  \/ Book \/ Cancel \/ BookFamily
  \/ BookRejected \/ CancelRejected \/ BookFamilyRejected

\* booking, cancelling and family booking, observed on every return
SpecReturns == InitAnyOrder /\ [][NextReturns]_vars

(***************************************************************************)
(* Chat requests in flight together.  The handler of POST /api/chat is an  *)
(* async function and nothing orders two of them: an operation runs from   *)
(* its await of readDatabase to its await of writeDatabase on the copy it  *)
(* read, and another request may read or write in between.                 *)
(***************************************************************************)
\* the operation of a request, run on the copy it read
OperationOf(request) ==
  IF request.op = "book"
  THEN bookAppointment(request.db, request.patientId, request.patientName,
                       request.date, request.time)
  ELSE cancelAppointment(request.db, request.id)

AllIdle == \A q \in Requests : inflight.req[q].pc = "idle"

\* the books in flight that have not written yet
PendingBooks ==
  Cardinality({q \in Requests : inflight.req[q].pc = "read" /\ inflight.req[q].op = "book"})

\* await readDatabase() of a request resolves
Arrive(q, request) ==
  /\ inflight.req[q].pc = "idle"
  /\ inflight' = [base |-> IF AllIdle THEN Stores ELSE inflight.base,
                  req |-> [inflight.req EXCEPT ![q] =
                             [request EXCEPT !.pc = "read", !.db = Stores]]]
  /\ UNCHANGED <<patients, appointments, availableSlots, now, moves, last,
                 emergencyAlerts, turn, registered, chatVars>>

ArriveBook(q) ==
  \E p \in DOMAIN patients, date \in SeededDates, time \in Labels :
    /\ Len(appointments) + PendingBooks < MaxAppts
    /\ Arrive(q, [Idle EXCEPT !.op = "book", !.patientId = patients[p].id,
                              !.patientName = patients[p].fullName,
                              !.date = date, !.time = time])

ArriveCancel(q) ==
  \E appointmentId \in KnownIds :
    Arrive(q, [Idle EXCEPT !.op = "cancel", !.id = appointmentId])

\* the operation of the request runs to its return: writeDatabase(db) on its
\* success path, nothing written on an early return
Return(q) ==
  /\ inflight.req[q].pc = "read"
  /\ inflight.req[q].op \in {"book", "cancel"}
  /\ \E r \in {OperationOf(inflight.req[q])} :
       /\ IF r.ok
          THEN /\ patients' = r.db.patients
               /\ appointments' = r.db.appointments
               /\ availableSlots' = r.db.availableSlots
          ELSE UNCHANGED <<patients, appointments, availableSlots>>
       /\ inflight' = [inflight EXCEPT !.req[q].pc = "done", !.req[q].ok = r.ok,
                                       !.req[q].tag = r.tag,
                                       !.req[q].created = r.created]
  /\ UNCHANGED <<now, moves, last, emergencyAlerts, turn, registered, chatVars>>

\* both responses are sent
Settle ==
  /\ \A q \in Requests : inflight.req[q].pc = "done"
  /\ inflight' = NoFlight
  /\ UNCHANGED <<patients, appointments, availableSlots, now, moves, last,
                 emergencyAlerts, turn, registered, chatVars>>

NextOverlap ==
  \/ \E q \in Requests : ArriveBook(q)
  \/ \E q \in Requests : ArriveCancel(q)
  \/ \E q \in Requests : Return(q)
  \/ Settle

\* pairs of chat requests, served one after the other or together
SpecOverlap == Init /\ [][NextOverlap]_vars

(***************************************************************************)
(* One conversational turn of POST /api/chat: the action tokens of the     *)
(* reply are run in order, each in its own try/catch, then the response is *)
(* built.  A file that cannot be read is replaced by an empty collection   *)
(* (readData); a file that cannot be written makes writeData throw, after  *)
(* the files before it were written.                                       *)
(***************************************************************************)
BookToken(patientId, patientName, time) ==
  [fn |-> "book_appointment", patientId |-> patientId, patientName |-> patientName,
   date |-> 1, time |-> time, id |-> NoId, parses |-> TRUE]

CancelToken(appointmentId) ==
  [fn |-> "cancel_appointment", patientId |-> 0, patientName |-> "", date |-> 0,
   time |-> "", id |-> appointmentId, parses |-> TRUE]

\* a token whose argument payload JSON.parse rejects
Malformed == [BookToken(2, "Bob", "10:00 AM") EXCEPT !.parses = FALSE]

\* a well-formed token that names none of the nine operations
UnknownToken == [CancelToken(NoId) EXCEPT !.fn = "send_reminder"]

\* the id the next bookAppointment will give
NextAppointmentId == [kind |-> "seq", n |-> Len(appointments) + 1, idx |-> 0]

\* the second books for patient 1 under another patient's name; the last
\* cancels the appointment a booking of the same turn would create
TokenPool ==
  {BookToken(1, "Ann", "9:00 AM"), BookToken(1, "Bob", "9:00 AM"),
   BookToken(2, "Bob", "10:00 AM"), Malformed, UnknownToken}
  \cup {CancelToken(id) : id \in KnownIds \cup {NextAppointmentId}}

TokenLists == UNION {[1..n -> TokenPool] : n \in 1..MaxTokens}

\* the arguments the retry passes for date and time: none
Undefined == [date |-> -1, time |-> ""]

ReadFaults == {"read patients", "read appointments", "read availableSlots"}
WriteFaults == {"write patients", "write appointments", "write availableSlots"}
Faults == {"none"} \cup ReadFaults \cup WriteFaults

\* readAllData: a collection whose file cannot be read comes back empty
ReadWith(fault) ==
  [patients |-> IF fault = "read patients" THEN <<>> ELSE patients,
   appointments |-> IF fault = "read appointments" THEN <<>> ELSE appointments,
   availableSlots |-> IF fault = "read availableSlots" THEN <<>> ELSE availableSlots]

\* executeFunctionCall on the copy that was read
\* a dispatch with no default case: what is not a booking is a cancellation
InvokeBookOrCancel(db, token) ==
  IF token.fn = "book_appointment"
  THEN bookAppointment(db, token.patientId, token.patientName, token.date, token.time)
  ELSE cancelAppointment(db, token.id)

\* the cases of executeFunctionCall
OperationNames ==
  {"search_patient", "get_available_slots", "book_appointment",
   "register_new_patient", "cancel_appointment", "cancel_all_appointments",
   "reschedule_appointment", "notify_staff_emergency", "book_family_appointments"}

Invoke(db, token) ==
  IF token.fn = "book_appointment"
  THEN bookAppointment(db, token.patientId, token.patientName, token.date, token.time)
  ELSE IF token.fn = "cancel_appointment" THEN cancelAppointment(db, token.id)
  ELSE Failure("unknown_function", db)

\* writeDatabase: patients, appointments, availableSlots, one file after the
\* other, up to the file that cannot be written
Flush(db, fault) ==
  /\ patients' = IF fault = "write patients" THEN patients ELSE db.patients
  /\ appointments' = IF fault \in {"write patients", "write appointments"}
                     THEN appointments ELSE db.appointments
  /\ availableSlots' = IF fault \in WriteFaults THEN availableSlots
                       ELSE db.availableSlots

\* what the session carries from one turn to the next
Session == [NoTurn EXCEPT !.patientId = turn.patientId,
                          !.patientName = turn.patientName]

\* a turn whose reply is the patient search: the session keeps who was found
RememberPatient ==
  /\ turn.state # "running"
  /\ \E p \in DOMAIN patients :
       turn' = [NoTurn EXCEPT !.state = "responded", !.response = "welcome back",
                              !.patientId = patients[p].id,
                              !.patientName = patients[p].fullName]
  /\ UNCHANGED <<patients, appointments, availableSlots, now, moves, last,
                 emergencyAlerts, inflight,
                 registered, chatVars>>

\* the reply of the assistant arrives: its action tokens, and whether it holds
\* anything else (bare: nothing but the tokens)
BeginTurn ==
  /\ turn.state # "running"
  /\ \E tokens \in TokenLists, bare \in BOOLEAN :
       turn' = [Session EXCEPT !.state = "running", !.tokens = tokens,
                               !.invocations = [k \in DOMAIN tokens |-> 0],
                               !.bare = bare]
  /\ UNCHANGED <<patients, appointments, availableSlots, now, moves, last,
                 emergencyAlerts, inflight,
                 registered, chatVars>>

\* the token of a pass: the matches of the regular expression come from
\* left to right
\* the matches taken from right to left
TokenFromTheRight(tokens, pass) == tokens[Len(tokens) + 1 - pass]

TokenAt(tokens, pass) == tokens[pass]

\* one pass of the loop over the action tokens; a payload that does not
\* parse skips the token
ExecuteAction ==
  /\ turn.state = "running"
  /\ turn.next <= Len(turn.tokens)
  /\ LET token == TokenAt(turn.tokens, turn.next)
     IN IF ~token.parses
        THEN /\ turn' = [turn EXCEPT !.next = @ + 1]
             /\ UNCHANGED <<patients, appointments, availableSlots>>
        ELSE \E fault \in Faults :
               \E r \in {Invoke(ReadWith(fault), token)} :
                  /\ Len(r.db.appointments) <= MaxAppts
                  /\ fault \in WriteFaults => r.ok
                  /\ IF r.ok THEN Flush(r.db, fault)
                     ELSE UNCHANGED <<patients, appointments, availableSlots>>
                  /\ turn' = [turn EXCEPT
                                !.next = @ + 1,
                                !.invocations[turn.next] = @ + 1,
                                !.executed = Append(@,
                                   [fn |-> token.fn, token |-> turn.next,
                                    fault |-> fault,
                                    threw |-> fault \in WriteFaults,
                                    ok |-> r.ok /\ fault \notin WriteFaults,
                                    tag |-> r.tag])]
  /\ UNCHANGED <<now, moves, last, emergencyAlerts, inflight,
                 registered, chatVars>>

NoAction == [fn |-> "", token |-> 0, fault |-> "none", threw |-> FALSE,
             ok |-> FALSE, tag |-> ""]

\* the response is built from the last action that ran, if any ran
Respond ==
  /\ turn.state = "running"
  /\ turn.next > Len(turn.tokens)
  /\ LET lastAction == IF turn.executed = <<>> THEN NoAction
                       ELSE turn.executed[Len(turn.executed)]
         retried == /\ turn.bare
                    /\ lastAction.fn = "book_appointment"
                    /\ ~lastAction.threw /\ ~lastAction.ok
                    /\ lastAction.tag = "name_mismatch"
                    /\ turn.patientId # 0
     IN IF retried
        THEN \E r \in {bookAppointment(Stores, turn.patientId, turn.patientName,
                                        Undefined.date, Undefined.time)} :
               /\ IF r.ok THEN Flush(r.db, "none")
                  ELSE UNCHANGED <<patients, appointments, availableSlots>>
               /\ turn' = [Session EXCEPT
                             !.state = "responded",
                             !.invocations =
                                [turn.invocations EXCEPT ![lastAction.token] = @ + 1],
                             !.response = IF r.ok THEN "confirmed" ELSE "failed"]
        ELSE /\ UNCHANGED <<patients, appointments, availableSlots>>
             /\ turn' = [Session EXCEPT
                           !.state = "responded",
                           !.invocations = turn.invocations,
                           !.response = IF ~turn.bare THEN "text"
                                        ELSE IF turn.executed = <<>> THEN "empty"
                                        ELSE IF lastAction.threw THEN "apology"
                                        ELSE IF lastAction.tag = "unknown_function"
                                             THEN "completed"
                                        ELSE IF lastAction.ok THEN "confirmed"
                                        ELSE "failed"]
  /\ UNCHANGED <<now, moves, last, emergencyAlerts, inflight,
                 registered, chatVars>>

NextTurns == RememberPatient \/ BeginTurn \/ ExecuteAction \/ Respond

\* conversational turns, one at a time, on files that may fail
SpecTurns == Init /\ [][NextTurns]_vars

NextParty == Book \/ Cancel \/ BookParty

\* bookings, cancellations and the family bookings that follow them
SpecParty == Init /\ [][NextParty]_vars

(***************************************************************************)
(* Phone numbers and names as they are typed.  PhoneUnits gives the        *)
(* characters of the phone strings used; the validations work on them.     *)
(***************************************************************************)
PhoneUnits(phone) ==
  CASE phone = "5551110000"     -> <<"5","5","5","1","1","1","0","0","0","0">>
    [] phone = "555-111-0000"   -> <<"5","5","5","-","1","1","1","-","0","0","0","0">>
    [] phone = "1 5551110000"   -> <<"1"," ","5","5","5","1","1","1","0","0","0","0">>
    [] phone = "5552220000"     -> <<"5","5","5","2","2","2","0","0","0","0">>
    [] phone = "(555) 333-0000" ->
         <<"(","5","5","5",")"," ","3","3","3","-","0","0","0","0">>
    [] phone = "5553330000"     -> <<"5","5","5","3","3","3","0","0","0","0">>
    [] phone = "5554440000"     -> <<"5","5","5","4","4","4","0","0","0","0">>
    [] phone = "25551110000"    -> <<"2","5","5","5","1","1","1","0","0","0","0">>
    [] phone = "555-1110"       -> <<"5","5","5","-","1","1","1","0">>
    [] OTHER -> <<>>

PlainPhones == {"5551110000", "5552220000", "5553330000", "5554440000"}
DigitChars == {"0", "1", "2", "3", "4", "5", "6", "7", "8", "9"}

\* phone.replace(/\D/g, '')
RECURSIVE cleanPhone(_)
cleanPhone(units) ==
  IF units = <<>> THEN <<>>
  ELSE IF Head(units) \in DigitChars THEN <<Head(units)>> \o cleanPhone(Tail(units))
  ELSE cleanPhone(Tail(units))

\* the string made of ten digits
PhoneText(units) == CHOOSE phone \in PlainPhones : PhoneUnits(phone) = units

validatePhoneNumber(phone) ==
  LET clean == cleanPhone(PhoneUnits(phone))
  IN IF phone = "" THEN [valid |-> FALSE, normalized |-> ""]
     ELSE IF Len(clean) = 10 THEN [valid |-> TRUE, normalized |-> PhoneText(clean)]
     ELSE IF Len(clean) = 11 /\ Head(clean) = "1"
          THEN [valid |-> TRUE, normalized |-> PhoneText(Tail(clean))]
     ELSE [valid |-> FALSE, normalized |-> ""]

\* the names used hold letters only and no white space around them
validatePatientName(name) ==
  IF TrimLength(name) < 2 THEN [valid |-> FALSE, normalized |-> ""]
  ELSE [valid |-> TRUE, normalized |-> name]

(***************************************************************************)
(* notifyStaffEmergency.  The clock counts minutes.                        *)
(***************************************************************************)
TenMinutes == 10

\* the trailing window of the mutant holds the present minute only
recentlyAlertedThisMinute(alerts, normalized, clock) ==
  \E i \in DOMAIN alerts :
     alerts[i].contactPhone = normalized /\ alerts[i].alertedAt >= clock

recentlyAlerted(alerts, normalized, clock) ==
  \E i \in DOMAIN alerts :
     /\ alerts[i].contactPhone = normalized
     /\ alerts[i].alertedAt >= clock - TenMinutes

\* a notify that keeps a record of the calls it suppresses
notifyStaffEmergencyKeepingAttempts(alerts, patientName, emergencyDetails, contactPhone, clock) ==
  LET nameValidation == validatePatientName(patientName)
      phoneValidation == validatePhoneNumber(contactPhone)
      Answer(ok, tag, stored) ==
        [ok |-> ok, tag |-> tag, alerts |-> stored]
      Alert(status) ==
        [id |-> clock, patientName |-> nameValidation.normalized,
         emergencyDetails |-> emergencyDetails,
         contactPhone |-> phoneValidation.normalized,
         status |-> status, alertedAt |-> clock]
  IN IF ~nameValidation.valid THEN Answer(FALSE, "invalid_name", alerts)
     ELSE IF ~phoneValidation.valid THEN Answer(FALSE, "invalid_phone", alerts)
     ELSE IF TrimLength(emergencyDetails) < 5
          THEN Answer(FALSE, "invalid_details", alerts)
     ELSE IF recentlyAlerted(alerts, phoneValidation.normalized, clock)
          THEN Answer(TRUE, "already_reported", Append(alerts, Alert("suppressed")))
     ELSE Answer(TRUE, "alerted", Append(alerts, Alert("pending")))

notifyStaffEmergency(alerts, patientName, emergencyDetails, contactPhone, clock) ==
  LET nameValidation == validatePatientName(patientName)
      phoneValidation == validatePhoneNumber(contactPhone)
      Answer(ok, tag, stored) ==
        [ok |-> ok, tag |-> tag, alerts |-> stored]
  IN IF ~nameValidation.valid THEN Answer(FALSE, "invalid_name", alerts)
     ELSE IF ~phoneValidation.valid THEN Answer(FALSE, "invalid_phone", alerts)
     ELSE IF TrimLength(emergencyDetails) < 5
          THEN Answer(FALSE, "invalid_details", alerts)
     ELSE IF recentlyAlerted(alerts, phoneValidation.normalized, clock)
          THEN Answer(TRUE, "already_reported", alerts)
     ELSE Answer(TRUE, "alerted",
                 Append(alerts,
                        [id |-> clock, patientName |-> nameValidation.normalized,
                         emergencyDetails |-> emergencyDetails,
                         contactPhone |-> phoneValidation.normalized,
                         status |-> "pending", alertedAt |-> clock]))

\* who reports what; the last two fail the validation
Reports ==
  {[patientName |-> "Ann", emergencyDetails |-> "broken tooth"],
   [patientName |-> "Bob", emergencyDetails |-> "bleeding"],
   [patientName |-> "X", emergencyDetails |-> "broken tooth"],
   [patientName |-> "Ann", emergencyDetails |-> "ow"]}

ContactPhones ==
  {"5551110000", "555-111-0000", "1 5551110000", "5552220000", "555-1110"}

Gaps == {4, 6}

Notify ==
  /\ \E report \in Reports, contactPhone \in ContactPhones :
       \E r \in {notifyStaffEmergency(emergencyAlerts, report.patientName,
                                      report.emergencyDetails, contactPhone, now)} :
          /\ Len(r.alerts) <= MaxAlerts
          /\ emergencyAlerts' = r.alerts
          /\ last' = [op |-> "notify", ok |-> r.ok, tag |-> r.tag,
                      patientName |-> report.patientName,
                      emergencyDetails |-> report.emergencyDetails,
                      contactPhone |-> contactPhone]
  /\ UNCHANGED <<patients, appointments, availableSlots, now, moves, inflight,
                 turn, registered, chatVars>>

\* time passes between two calls
Tick ==
  /\ \E gap \in Gaps : now + gap <= MaxMinutes /\ now' = now + gap
  /\ UNCHANGED <<patients, appointments, availableSlots, moves, last,
                 emergencyAlerts, inflight, turn, registered, chatVars>>

NextEmergency == Notify \/ Tick

\* emergency reports, one at a time
SpecEmergency == Init /\ [][NextEmergency]_vars

(***************************************************************************)
(* An emergency report in flight with other chat requests.                 *)
(* notifyStaffEmergency reads the whole database, appends its alert to the *)
(* copy and hands the copy to writeDatabase, which writes the patients,    *)
(* the appointments and the slots of the copy as well.                     *)
(***************************************************************************)
\* the report of the requests in flight
OverlapReport == [patientName |-> "Ann", emergencyDetails |-> "broken tooth",
                  contactPhone |-> "5551110000"]

\* await readDatabase() of a notify request resolves
ArriveNotify(q) ==
  /\ Len(emergencyAlerts) < MaxAlerts
  /\ inflight.req[q].pc = "idle"
  /\ inflight' = [base |-> IF AllIdle THEN Stores ELSE inflight.base,
                  req |-> [inflight.req EXCEPT ![q] =
                             [Idle EXCEPT !.op = "notify", !.pc = "read",
                                          !.db = Stores,
                                          !.alerts = emergencyAlerts]]]
  /\ UNCHANGED <<patients, appointments, availableSlots, now, moves, last,
                 emergencyAlerts, turn, registered, chatVars>>

\* the notify request runs to its return: writeDatabase(db) when it stored
\* an alert, nothing written when the report was suppressed
ReturnNotify(q) ==
  /\ inflight.req[q].pc = "read"
  /\ inflight.req[q].op = "notify"
  /\ \E r \in {notifyStaffEmergency(inflight.req[q].alerts,
                                    OverlapReport.patientName,
                                    OverlapReport.emergencyDetails,
                                    OverlapReport.contactPhone, now)} :
       /\ IF r.tag = "alerted"
          THEN /\ patients' = inflight.req[q].db.patients
               /\ appointments' = inflight.req[q].db.appointments
               /\ availableSlots' = inflight.req[q].db.availableSlots
               /\ emergencyAlerts' = r.alerts
          ELSE UNCHANGED <<patients, appointments, availableSlots, emergencyAlerts>>
       /\ inflight' = [inflight EXCEPT !.req[q].pc = "done", !.req[q].ok = r.ok,
                                       !.req[q].tag = r.tag]
  /\ UNCHANGED <<now, moves, last, turn, registered, chatVars>>

NextNotifyOverlap ==
  \/ \E q \in Requests : ArriveBook(q)
  \/ \E q \in Requests : ArriveCancel(q)
  \/ \E q \in Requests : ArriveNotify(q)
  \/ \E q \in Requests : Return(q)
  \/ \E q \in Requests : ReturnNotify(q)
  \/ Settle

\* pairs of chat requests, emergency reports among them
SpecNotifyOverlap == Init /\ [][NextNotifyOverlap]_vars

(***************************************************************************)

(* registerNewPatient                                                      *)
(***************************************************************************)
\* the digits of the dates of birth used; <<>> for a string that is not
\* eight digits
DobDigits(dob) ==
  CASE dob = "08272000" -> <<0, 8, 2, 7, 2, 0, 0, 0>>
    [] dob = "13012000" -> <<1, 3, 0, 1, 2, 0, 0, 0>>
    [] OTHER -> <<>>

ThisYear == 2025

validateDateOfBirth(dob) ==
  LET d == DobDigits(dob)
      month == 10 * d[1] + d[2]
      day == 10 * d[3] + d[4]
      year == 1000 * d[5] + 100 * d[6] + 10 * d[7] + d[8]
  IN IF dob = "" \/ Len(d) # 8 THEN [valid |-> FALSE, normalized |-> ""]
     ELSE IF month < 1 \/ month > 12 THEN [valid |-> FALSE, normalized |-> ""]
     ELSE IF day < 1 \/ day > 31 THEN [valid |-> FALSE, normalized |-> ""]
     ELSE IF year < 1900 \/ year > ThisYear THEN [valid |-> FALSE, normalized |-> ""]
     ELSE [valid |-> TRUE, normalized |-> dob]

validInsurances ==
  <<"Blue Cross Blue Shield", "Blue Cross", "Aetna", "Cigna", "Delta Dental",
    "MetLife", "United Healthcare", "Humana", "Other Insurance", "No Insurance">>

validateInsurance(insurance) ==
  LET found == FirstIndex({i \in DOMAIN validInsurances :
                             Lower(validInsurances[i]) = Lower(insurance)})
  IN IF TrimLength(insurance) < 2 \/ found = 0
     THEN [valid |-> FALSE, normalized |-> ""]
     ELSE [valid |-> TRUE, normalized |-> validInsurances[found]]

\* normalizePhone of the patient lookup: the digits, less a leading 1 of eleven
normalizePhone(phone) ==
  LET clean == cleanPhone(PhoneUnits(phone))
  IN IF phone = "" THEN <<>>
     ELSE IF Len(clean) = 11 /\ Head(clean) = "1" THEN Tail(clean)
     ELSE clean

\* a lookup that compares the latest patient only
findLatestPatientByPhone(pats, phone) ==
  IF pats # <<>> /\ normalizePhone(pats[Len(pats)].phone) = normalizePhone(phone)
  THEN Len(pats) ELSE 0

\* index of the patient found, 0 if none
findPatientByPhone(pats, phone) ==
  FirstIndex({i \in DOMAIN pats : normalizePhone(pats[i].phone) = normalizePhone(phone)})

\* searchPatient({ phone })
searchPatient(pats, phone) ==
  LET phoneValidation == validatePhoneNumber(phone)
  IN IF phone = "" \/ ~phoneValidation.valid THEN 0
     ELSE findPatientByPhone(pats, phoneValidation.normalized)

\* an identifier numbered by the count of the patients on file
nextPatientIdFromCount(pats) == Len(pats)

\* the number in `p${String(allData.patients.length + 1).padStart(3, '0')}`
nextPatientId(pats) == Len(pats) + 1

\* searchPatient({ phone }).appointments: the non-cancelled appointments
\* whose patientId is the id of the patient found (indices in the ledger)
searchPatientAppointments(db, phone) ==
  LET found == searchPatient(db.patients, phone)
  IN IF found = 0 THEN {}
     ELSE {i \in DOMAIN db.appointments :
             /\ db.appointments[i].patientId = db.patients[found].id
             /\ db.appointments[i].status # "cancelled"}

NoPatient == [id |-> 0, fullName |-> "", phone |-> "", dateOfBirth |-> "",
              insurance |-> "", familyMembers |-> <<>>]

registerNewPatient(pats, fullName, phone, dateOfBirth, insurance) ==
  LET nameValidation == validatePatientName(fullName)
      phoneValidation == validatePhoneNumber(phone)
      dobValidation == validateDateOfBirth(dateOfBirth)
      insuranceValidation == validateInsurance(insurance)
      Answer(ok, tag, stored, patient) ==
        [ok |-> ok, tag |-> tag, patients |-> stored, patient |-> patient]
  IN IF ~nameValidation.valid THEN Answer(FALSE, "invalid_name", pats, NoPatient)
     ELSE IF ~phoneValidation.valid THEN Answer(FALSE, "invalid_phone", pats, NoPatient)
     ELSE IF ~dobValidation.valid THEN Answer(FALSE, "invalid_dob", pats, NoPatient)
     ELSE IF ~insuranceValidation.valid
          THEN Answer(FALSE, "invalid_insurance", pats, NoPatient)
     ELSE
       LET existing == searchPatient(pats, phoneValidation.normalized)
           patient == [id |-> nextPatientId(pats), fullName |-> nameValidation.normalized,
                       phone |-> phoneValidation.normalized,
                       dateOfBirth |-> dobValidation.normalized,
                       insurance |-> insuranceValidation.normalized,
                       familyMembers |-> <<>>]
       IN IF existing # 0 THEN Answer(FALSE, "duplicate", pats, pats[existing])
          ELSE Answer(TRUE, "registered", Append(pats, patient), patient)

\* `p${String(n).padStart(3, '0')}`: the characters of a patient identifier
RECURSIVE DecimalDigits(_)
DecimalDigits(n) ==
  IF n < 10 THEN <<n>> ELSE Append(DecimalDigits(n \div 10), n % 10)

RECURSIVE padStart(_, _, _)
padStart(units, length, fill) ==
  IF Len(units) >= length THEN units ELSE padStart(<<fill>> \o units, length, fill)

PatientIdText(n) == <<"p">> \o padStart(DecimalDigits(n), 3, 0)

TypedPhones ==
  {"555-111-0000", "1 5551110000", "5552220000", "(555) 333-0000", "5553330000",
   "5554440000", "25551110000", "555-1110"}

Complete(phone) ==
  [fullName |-> "Eve", phone |-> phone, dateOfBirth |-> "08272000",
   insurance |-> "Aetna"]

\* complete submissions, and three with one field that fails its validation
Submissions ==
  {Complete(phone) : phone \in TypedPhones}
  \cup {[Complete("555-111-0000") EXCEPT !.fullName = "X"],
        [Complete("555-111-0000") EXCEPT !.dateOfBirth = "13012000"],
        [Complete("555-111-0000") EXCEPT !.insurance = "Acme"]}

Register ==
  /\ \E s \in Submissions :
       \E r \in {registerNewPatient(patients, s.fullName, s.phone, s.dateOfBirth,
                                    s.insurance)} :
          /\ Len(r.patients) <= MaxRegistry
          /\ patients' = r.patients
          /\ registered' = IF r.ok THEN registered \cup {r.patient.id} ELSE registered
          /\ last' = [op |-> "register", ok |-> r.ok, tag |-> r.tag,
                      fullName |-> s.fullName, phone |-> s.phone,
                      patient |-> r.patient]
  /\ UNCHANGED <<appointments, availableSlots, now, moves, emergencyAlerts,
                 inflight, turn, chatVars>>

KinLists == UNION {[1..n -> MemberPool] : n \in 1..MaxMembers}

\* a family booking of any patient on file
BookKin ==
  \E p \in DOMAIN patients, familyMembers \in KinLists, preferredDate \in SeededDates :
    \E r \in {bookFamilyAppointments(Stores, patients[p].id, familyMembers,
                                     preferredDate, now)} :
       /\ r.ok
       /\ CommitWithin(r, [NoCall EXCEPT !.op = "bookFamily",
                                         !.patientId = patients[p].id,
                                         !.members = familyMembers,
                                         !.date = preferredDate],
                       now, MaxPartyAppts, MaxRegistry)
       /\ UNCHANGED moves

NextRegistry == Register \/ BookKin

\* registrations and family bookings, one at a time
SpecRegistry == Init /\ [][NextRegistry]_vars

(***************************************************************************)
(* The conversation contexts of the chat handler.                          *)
(***************************************************************************)
\* the length the handler trims a context to
ContextWindow == 20

\* a message of a context; its content is the number of the request
Message(role, n) == [role |-> role, content |-> n]

\* s.slice(-n)
SliceLast(s, n) == IF Len(s) <= n THEN s ELSE SubSeq(s, Len(s) - n + 1, Len(s))

\* the array the handler works on: the session's context, else the map's,
\* else a new array
LoadContext(convId) ==
  IF sessionCache[convId] # NoContext THEN sessionCache[convId]
  ELSE conversationContexts[convId]

\* context.push on the loaded array: the map and the session hold the array
\* itself, so a stored array grows in place; a new array is held by nobody
PushInPlace(stored, message) ==
  IF stored = NoContext THEN stored ELSE Append(stored, message)

\* the trim before the context is stored
TrimContext(context) ==
  IF Len(context) > ContextWindow THEN SliceLast(context, ContextWindow)
  ELSE context

\* a chat request that is answered: the user message and the assistant
\* message are pushed, the context is trimmed and stored in the map and in
\* the session
ChatReplied ==
  /\ chats < MaxChats
  /\ \E convId \in ConversationIds :
       LET context == TrimContext(
                        Append(Append(LoadContext(convId),
                                      Message("user", chats + 1)),
                               Message("assistant", chats + 1)))
       IN /\ conversationContexts' = [conversationContexts EXCEPT ![convId] = context]
          /\ sessionCache' = [sessionCache EXCEPT ![convId] = context]
  /\ chats' = chats + 1
  /\ UNCHANGED <<patients, appointments, availableSlots, now, moves, last,
                 emergencyAlerts, inflight, turn, registered>>

\* where a chat request can throw after the user message was pushed: the
\* call of the assistant, or the log of the assistant message
ThrowPoints == {"callAI", "logConversation"}

\* a chat request that ends in the catch block: what was pushed before the
\* throw stays in the stored array, nothing is trimmed or stored
ChatFailed ==
  /\ chats < MaxChats
  /\ \E convId \in ConversationIds, point \in ThrowPoints :
       LET Pushed(stored) ==
             IF point = "callAI"
             THEN PushInPlace(stored, Message("user", chats + 1))
             ELSE PushInPlace(PushInPlace(stored, Message("user", chats + 1)),
                              Message("assistant", chats + 1))
       IN /\ conversationContexts' =
               [conversationContexts EXCEPT ![convId] = Pushed(@)]
          /\ sessionCache' = [sessionCache EXCEPT ![convId] = Pushed(@)]
  /\ chats' = chats + 1
  /\ UNCHANGED <<patients, appointments, availableSlots, now, moves, last,
                 emergencyAlerts, inflight, turn, registered>>

NextChat == ChatReplied \/ ChatFailed

\* chat requests, one at a time
SpecChat == Init /\ [][NextChat]_vars

(***************************************************************************)

(* The session patient of POST /api/chat.  A bare reply whose last action  *)
(* is a search that found a patient stores that patient in the HTTP        *)
(* session; a family booking of a session that holds a patient is run for  *)
(* that patient; a booking refused for its name is run again with the      *)
(* patient of the session.                                                 *)
(***************************************************************************)
SearchToken(phone) ==
  [fn |-> "search_patient", phone |-> phone, patientId |-> 0, patientName |-> "",
   members |-> <<>>, date |-> 0, time |-> "", parses |-> TRUE]

FamilyToken(primaryPatientId) ==
  [fn |-> "book_family_appointments", phone |-> "", patientId |-> primaryPatientId,
   patientName |-> "", members |-> <<Cy>>, date |-> 1, time |-> "", parses |-> TRUE]

BookingToken(patientId, patientName, time) ==
  [fn |-> "book_appointment", phone |-> "", patientId |-> patientId,
   patientName |-> patientName, members |-> <<>>, date |-> 1, time |-> time,
   parses |-> TRUE]

\* the third phone is not on file; patient 0 is not on file; the first
\* booking is for patient 1 under another patient's name
SessionTokenPool ==
  {SearchToken("555-111-0000"), SearchToken("5552220000"), SearchToken("5553330000"),
   FamilyToken(0), FamilyToken(1), FamilyToken(2),
   BookingToken(1, "Bob", "9:00 AM"), BookingToken(2, "Bob", "10:00 AM")}

SessionTokenLists == UNION {[1..n -> SessionTokenPool] : n \in 1..MaxTokens}

\* the arguments passed to executeFunctionCall: those of the token, with the
\* primary of a family booking replaced by the patient of the session
OverridePrimary(token, sessionPatientId) ==
  IF token.fn = "book_family_appointments" /\ sessionPatientId # 0
  THEN [token EXCEPT !.patientId = sessionPatientId]
  ELSE token

\* the patient a search found, NoPatient if none
FoundBy(db, args) ==
  IF args.fn # "search_patient" \/ searchPatient(db.patients, args.phone) = 0
  THEN NoPatient
  ELSE db.patients[searchPatient(db.patients, args.phone)]

executeFunctionCall(db, args, clock) ==
  IF args.fn = "search_patient"
  THEN IF FoundBy(db, args) = NoPatient THEN Failure("not_found", db)
       ELSE Success("found", db, <<>>)
  ELSE IF args.fn = "book_family_appointments"
  THEN bookFamilyAppointments(db, args.patientId, args.members, args.date, clock)
  ELSE Invoke(db, args)

\* the reply of the assistant arrives
BeginSessionTurn ==
  /\ turn.state # "running"
  /\ \E tokens \in SessionTokenLists, bare \in BOOLEAN :
       turn' = [Session EXCEPT !.state = "running", !.tokens = tokens,
                               !.invocations = [k \in DOMAIN tokens |-> 0],
                               !.bare = bare]
  /\ UNCHANGED <<patients, appointments, availableSlots, now, moves, last,
                 emergencyAlerts, inflight, registered, chatVars>>

\* one pass of the loop over the action tokens
ExecuteSessionAction ==
  /\ turn.state = "running"
  /\ turn.next <= Len(turn.tokens)
  /\ LET token == TokenAt(turn.tokens, turn.next)
         args == OverridePrimary(token, turn.patientId)
     IN \E r \in {executeFunctionCall(Stores, args, now)} :
          /\ Len(r.db.appointments) <= MaxAppts
          /\ Len(r.db.patients) <= MaxPatients
          /\ IF r.ok THEN Flush(r.db, "none")
             ELSE UNCHANGED <<patients, appointments, availableSlots>>
          /\ turn' = [turn EXCEPT
                        !.next = @ + 1,
                        !.invocations[turn.next] = @ + 1,
                        !.executed = Append(@,
                           [fn |-> token.fn, token |-> turn.next, args |-> args,
                            ok |-> r.ok, tag |-> r.tag,
                            found |-> FoundBy(Stores, args)])]
  /\ UNCHANGED <<now, moves, last, emergencyAlerts, inflight, registered, chatVars>>

NoSessionAction == [fn |-> "", token |-> 0, args |-> SearchToken(""), ok |-> FALSE,
                    tag |-> "", found |-> NoPatient]

\* the response is built from the last action that ran: a search that found
\* a patient stores it in the session, a booking refused for its name is
\* run again for the patient of the session, without a date or a time
RespondSession ==
  /\ turn.state = "running"
  /\ turn.next > Len(turn.tokens)
  /\ LET lastAction == IF turn.executed = <<>> THEN NoSessionAction
                       ELSE turn.executed[Len(turn.executed)]
         retried == /\ turn.bare
                    /\ lastAction.fn = "book_appointment"
                    /\ ~lastAction.ok
                    /\ lastAction.tag = "name_mismatch"
                    /\ turn.patientId # 0
         stored == /\ turn.bare
                   /\ lastAction.fn = "search_patient"
                   /\ lastAction.found # NoPatient
         originalArgs == [BookingToken(turn.patientId, turn.patientName, Undefined.time)
                            EXCEPT !.date = Undefined.date]
     IN IF retried
        THEN \E r \in {executeFunctionCall(Stores, originalArgs, now)} :
               /\ IF r.ok THEN Flush(r.db, "none")
                  ELSE UNCHANGED <<patients, appointments, availableSlots>>
               /\ turn' = [Session EXCEPT
                             !.state = "responded",
                             !.executed =
                                <<[fn |-> "book_appointment",
                                   token |-> lastAction.token,
                                   args |-> originalArgs, ok |-> r.ok,
                                   tag |-> r.tag, found |-> NoPatient]>>,
                             !.response = IF r.ok THEN "confirmed" ELSE "failed"]
        ELSE /\ UNCHANGED <<patients, appointments, availableSlots>>
             /\ turn' = [Session EXCEPT
                           !.state = "responded",
                           !.patientId = IF stored THEN lastAction.found.id ELSE @,
                           !.patientName = IF stored THEN lastAction.found.fullName
                                           ELSE @,
                           !.response = IF ~turn.bare THEN "text"
                                        ELSE IF turn.executed = <<>> THEN "empty"
                                        ELSE IF stored THEN "welcome back"
                                        ELSE IF lastAction.ok THEN "confirmed"
                                        ELSE "failed"]
  /\ UNCHANGED <<now, moves, last, emergencyAlerts, inflight, registered, chatVars>>

NextSession == BeginSessionTurn \/ ExecuteSessionAction \/ RespondSession

\* conversational turns of one HTTP session
SpecSession == Init /\ [][NextSession]_vars

(***************************************************************************)

(* parseSubjectiveDate.  A Date is the number of its local calendar day,   *)
(* counted from 2025-10-01 = 1; every Date of the function is a UTC        *)
(* midnight moved by whole days, so the order of the instants is the order *)
(* of the day numbers.  getDate and setDate work on the local calendar.    *)
(***************************************************************************)
\* the day numbers before the first day of October, November, December 2025
\* and January 2026
MonthStart == <<0, 31, 61, 92>>

\* index in MonthStart of the month a day falls in
MonthOf(day) ==
  IF day <= MonthStart[2] THEN 1
  ELSE IF day <= MonthStart[3] THEN 2
  ELSE IF day <= MonthStart[4] THEN 3
  ELSE 4

\* Date.prototype.getDate: the day of the month
getDate(day) == day - MonthStart[MonthOf(day)]

\* Date.prototype.setDate: that day of the Date's own month, running over
\* into the months after it
setDate(day, dayOfMonth) == MonthStart[MonthOf(day)] + dayOfMonth

\* the local calendar day of a UTC midnight: the same day at and east of
\* Greenwich, the day before west of it
Zones == {0, -1}

\* new Date('2025-10-19'), new Date('2025-11-01'), new Date('2025-11-30')
ReferenceDate(zone) == 19 + zone
FirstOfNextMonth(zone) == MonthStart[2] + 1 + zone
LastOfNextMonth(zone) == MonthStart[2] + 30 + zone

\* the phrases the function tells apart; "late" is part of "later this week"
Keywords ==
  {"later this week", "end of this week", "next week", "next month", "asap",
   "soonest", "early", "late"}

\* a phrase is given by the keywords lower.includes finds in it
Phrases ==
  {phrase \in SUBSET Keywords : "later this week" \in phrase => "late" \in phrase}

Window(start, end) == [start |-> start, end |-> end]

parseNextWeek(reference, phrase) ==
  LET start == setDate(reference, getDate(reference) + 7)
      end == setDate(reference, getDate(reference) + 14)
  IN IF "early" \in phrase THEN Window(start, setDate(end, getDate(start) + 3))
     ELSE IF "late" \in phrase THEN Window(setDate(start, getDate(start) + 4), end)
     ELSE Window(start, end)

parseNextMonth(zone, phrase) ==
  LET start == FirstOfNextMonth(zone)
      end == LastOfNextMonth(zone)
  IN IF "early" \in phrase THEN Window(start, setDate(end, 7))
     ELSE IF "late" \in phrase THEN Window(setDate(start, 20), end)
     ELSE Window(start, end)

parseSubjectiveDate(phrase, zone) ==
  LET reference == ReferenceDate(zone)
  IN IF "later this week" \in phrase \/ "end of this week" \in phrase
     THEN Window(setDate(reference, getDate(reference) + 2), setDate(reference, getDate(reference) + 7))
     ELSE IF "next week" \in phrase THEN parseNextWeek(reference, phrase)
     ELSE IF "next month" \in phrase THEN parseNextMonth(zone, phrase)
     ELSE IF "asap" \in phrase \/ "soonest" \in phrase
          THEN Window(reference, setDate(reference, getDate(reference) + 3))
     ELSE Window(reference, setDate(reference, getDate(reference) + 7))

\* a phrase is resolved on a server of some time zone
ParseDate ==
  /\ \E phrase \in Phrases, zone \in Zones :
       last' = [op |-> "parseSubjectiveDate", phrase |-> phrase, zone |-> zone,
                window |-> parseSubjectiveDate(phrase, zone)]
  /\ UNCHANGED <<patients, appointments, availableSlots, now, moves,
                 emergencyAlerts, inflight, turn, registered, chatVars>>

NextDates == ParseDate

\* subjective dates, one phrase at a time
SpecDates == Init /\ [][NextDates]_vars

(***************************************************************************)

(* Vocabulary of the properties.                                           *)
(***************************************************************************)
\* the available list of a date in a slot collection, <<>> when the date has none
SlotsOn(slotDays, date) ==
  IF DayIndex(slotDays, date) = 0 THEN <<>>
  ELSE slotDays[DayIndex(slotDays, date)].slots

IsOpen(slotDays, date, time) == Includes(SlotsOn(slotDays, date), time)

IsActive(a) == a.status # "cancelled"

\* the non-cancelled appointments of a ledger at (date, time)
Holders(appts, date, time) ==
  {i \in DOMAIN appts : IsActive(appts[i]) /\ appts[i].date = date /\ appts[i].time = time}

SeedLabels(date) == {SeedSlots(date)[i] : i \in DOMAIN SeedSlots(date)}

StoresUnchanged == UNCHANGED <<patients, appointments, availableSlots>>

(***************************************************************************)
(* C1.  Every non-cancelled appointment's (date, time) is absent from the  *)
(* available list of its date, after any sequence of book, bookFamily,     *)
(* cancel, cancelAll and reschedule calls, reschedule of an already        *)
(* cancelled appointment included.                                         *)
(***************************************************************************)
C1_ActiveSlotNeverOpen ==
  \A i \in DOMAIN appointments :
    IsActive(appointments[i]) =>
      ~IsOpen(availableSlots, appointments[i].date, appointments[i].time)

(***************************************************************************)
(* C2.  No slot is lost: every time label of a seeded day that no          *)
(* non-cancelled appointment holds is in the day's available list.         *)
(***************************************************************************)
C2_NoSlotLost ==
  \A date \in SeededDates : \A time \in SeedLabels(date) :
    Holders(appointments, date, time) = {} => IsOpen(availableSlots, date, time)

(***************************************************************************)
(* C3.  Round trip: right after a successful book the (date, time) is      *)
(* absent from the day's list, and the cancel of the appointment that      *)
(* book returned succeeds and leaves the (date, time) in the list exactly  *)
(* once.                                                                   *)
(***************************************************************************)
C3_BookedSlotAbsent ==
  (last.op = "book" /\ last.ok) => ~IsOpen(availableSlots, last.date, last.time)

C3_CancelRestores ==
  (/\ last.op = "book" /\ last.ok
   /\ last'.op = "cancel" /\ last'.id = last.created[1].id)
  => /\ last'.ok
     /\ Count(SlotsOn(availableSlots', last.date), last.time) = 1

C3_RoundTrip == [](C3_BookedSlotAbsent) /\ [][C3_CancelRestores]_vars

\* a booked appointment, the newest of the ledger, has been cancelled
C3_Witness ==
  /\ last.op = "cancel" /\ last.ok
  /\ last.id = [kind |-> "seq", n |-> Len(appointments), idx |-> 0]
  /\ \E i \in DOMAIN appointments :
       /\ appointments[i].id = last.id
       /\ Count(SlotsOn(availableSlots, appointments[i].date), appointments[i].time) = 1

(***************************************************************************)
(* C4.  A successful book for a patient who holds non-cancelled            *)
(* appointments on that date leaves the patient exactly one non-cancelled  *)
(* appointment on the date, the new one; each earlier one is cancelled     *)
(* with reason "overwritten_by_new_booking" and its slot is back in the    *)
(* day's list unless it is the slot just reserved.                         *)
(***************************************************************************)
C4_BookStep ==
  (last'.op = "book" /\ last'.ok /\ Len(appointments') = Len(appointments) + 1)
  => /\ {i \in DOMAIN appointments' :
           /\ IsActive(appointments'[i])
           /\ appointments'[i].patientId = last'.patientId
           /\ appointments'[i].date = last'.date} = {Len(appointments')}
     /\ appointments'[Len(appointments')] = last'.created[1]
     /\ \A i \in DOMAIN appointments :
          (/\ IsActive(appointments[i])
           /\ appointments[i].patientId = last'.patientId
           /\ appointments[i].date = last'.date)
          => /\ appointments'[i].status = "cancelled"
             /\ appointments'[i].cancelReason = "overwritten_by_new_booking"
             /\ appointments[i].time # last'.time
                  => IsOpen(availableSlots', last'.date, appointments[i].time)

C4_SecondBookingSupersedes == [][C4_BookStep]_vars

C4_Witness ==
  /\ last.op = "book" /\ last.ok
  /\ \E i \in DOMAIN appointments :
       /\ appointments[i].patientId = last.patientId
       /\ appointments[i].date = last.date
       /\ appointments[i].cancelReason = "overwritten_by_new_booking"
       /\ IsOpen(availableSlots, last.date, appointments[i].time)

(***************************************************************************)
(* C5.  cancel of an appointment that is already cancelled returns the     *)
(* AlreadyCancelled failure, and cancel of an unknown id returns NotFound; *)
(* both change nothing: no slot is re-inserted and no appointment field    *)
(* changes.                                                                *)
(***************************************************************************)
C5_CancelStep ==
  (last'.op = "cancel" /\ last' # last)
  => LET i == AppointmentIndex(appointments, last'.id)
     IN /\ i = 0 => (~last'.ok /\ last'.tag = "not_found" /\ StoresUnchanged)
        /\ (i # 0 /\ appointments[i].status = "cancelled")
             => (~last'.ok /\ last'.tag = "already_cancelled" /\ StoresUnchanged)

C5_RejectedCancelChangesNothing == [][C5_CancelStep]_vars

\* the refused cancel of an appointment whose slot another one holds by now
C5_Witness ==
  /\ last.op = "cancel" /\ last.tag = "already_cancelled"
  /\ \E i \in DOMAIN appointments :
       /\ appointments[i].id = last.id
       /\ Holders(appointments, appointments[i].date, appointments[i].time) # {}
       /\ ~IsOpen(availableSlots, appointments[i].date, appointments[i].time)

(***************************************************************************)
(* Vocabulary of the family bookings.                                      *)
(***************************************************************************)
\* a call the validation lets through: a known primary, a non-empty list of
\* members with a name, a relationship and an appointment type
ValidParty(primaryPatientId, familyMembers) ==
  /\ PatientIndex(patients, primaryPatientId) # 0
  /\ Len(familyMembers) >= 1
  /\ \A k \in DOMAIN familyMembers : ValidMember(familyMembers[k])

\* the patients of the party already on file: the primary and whoever shares
\* the primary's phone and bears a listed name
PartyOnFile(primaryPatientId, familyMembers) ==
  {primaryPatientId} \cup
  { patients[j].id : j \in
      { n \in DOMAIN patients :
          /\ \E p \in DOMAIN patients :
                patients[p].id = primaryPatientId /\ patients[p].phone = patients[n].phone
          /\ \E k \in DOMAIN familyMembers :
                Lower(patients[n].fullName) = Lower(familyMembers[k].name) } }

\* the time labels open on a date once the party's own non-cancelled
\* appointments of that date are released
OpenAfterPreemption(primaryPatientId, familyMembers, date) ==
  IF DayIndex(availableSlots, date) = 0 THEN {}
  ELSE {SlotsOn(availableSlots, date)[i] : i \in DOMAIN SlotsOn(availableSlots, date)}
       \cup { appointments[i].time : i \in
                 { n \in DOMAIN appointments :
                     /\ IsActive(appointments[n])
                     /\ appointments[n].date = date
                     /\ appointments[n].patientId
                          \in PartyOnFile(primaryPatientId, familyMembers) } }

\* the result of the family booking called on the stores as they are
FamilyResult(primaryPatientId, familyMembers, preferredDate) ==
  bookFamilyAppointments(Stores, primaryPatientId, familyMembers, preferredDate, now)

\* the appointments of a result are all in the ledger it leaves, not cancelled
AllOnLedger(r) ==
  \A j \in DOMAIN r.created :
    \E i \in DOMAIN r.db.appointments :
      r.db.appointments[i] = r.created[j] /\ IsActive(r.created[j])

\* one appointment for the primary, then one per listed member in listed order
WholeParty(r, primaryPatientId, familyMembers, preferredDate) ==
  /\ Len(r.created) = Len(familyMembers) + 1
  /\ r.created[1].patientId = primaryPatientId
  /\ \A j \in DOMAIN r.created : r.created[j].date = preferredDate
  /\ \A k \in DOMAIN familyMembers :
       /\ r.created[k + 1].patientName = familyMembers[k].name
       /\ \E p \in DOMAIN r.db.patients :
            /\ r.db.patients[p].id = r.created[k + 1].patientId
            /\ Lower(r.db.patients[p].fullName) = Lower(familyMembers[k].name)

(***************************************************************************)
(* C6.  bookFamily is all-or-nothing: every call either succeeds with an   *)
(* appointment on the ledger for the primary and for every listed member,  *)
(* or fails and leaves patients, appointments and slot availability as     *)
(* they were.                                                              *)
(***************************************************************************)
C6_FamilyAllOrNothing ==
  \A primaryPatientId \in PrimaryPool, familyMembers \in MemberLists, date \in Dates :
    \A r \in {FamilyResult(primaryPatientId, familyMembers, date)} :
      \/ /\ r.ok
         /\ WholeParty(r, primaryPatientId, familyMembers, date)
         /\ AllOnLedger(r)
      \/ /\ ~r.ok
         /\ r.created = <<>>
         /\ r.db = Stores

\* a refused family booking whose primary still holds the same-day appointment
\* the pre-emption had cancelled on the working copy
C6_Witness ==
  /\ last.op = "bookFamily" /\ ~last.ok
  /\ last.tag \in {"insufficient_slots", "no_capacity"}
  /\ \E i \in DOMAIN appointments :
       /\ IsActive(appointments[i])
       /\ appointments[i].patientId = last.patientId
       /\ appointments[i].date = last.date
       /\ ~IsOpen(availableSlots, last.date, appointments[i].time)

(***************************************************************************)
(* C7.  bookFamily for N valid members on a day that has exactly N+1 open  *)
(* slots once the pre-emption has released the party's own succeeds,       *)
(* creates N+1 appointments with pairwise distinct times, takes exactly    *)
(* those N+1 labels and leaves the day's list empty; no member is skipped. *)
(***************************************************************************)
C7_ExactCapacitySucceeds ==
  \A primaryPatientId \in PrimaryPool, familyMembers \in MemberLists, date \in Dates :
    (/\ ValidParty(primaryPatientId, familyMembers)
     /\ Cardinality(OpenAfterPreemption(primaryPatientId, familyMembers, date))
          = Len(familyMembers) + 1)
    => \A r \in {FamilyResult(primaryPatientId, familyMembers, date)} :
         /\ r.ok
         /\ WholeParty(r, primaryPatientId, familyMembers, date)
         /\ AllOnLedger(r)
         /\ \A j, k \in DOMAIN r.created : j # k => r.created[j].time # r.created[k].time
         /\ {r.created[j].time : j \in DOMAIN r.created}
              = OpenAfterPreemption(primaryPatientId, familyMembers, date)
         /\ SlotsOn(r.db.availableSlots, date) = <<>>

\* a family booking that took the last open slots of its day
C7_Witness ==
  /\ last.op = "bookFamily" /\ last.ok
  /\ Len(last.created) = Len(last.members) + 1
  /\ DayIndex(availableSlots, last.date) # 0
  /\ SlotsOn(availableSlots, last.date) = <<>>

(***************************************************************************)
(* C8.  In every successful bookFamily the primary's appointment time is   *)
(* the earliest, by time of day, of the slots open on the preferred date   *)
(* at allocation, lists re-sorted by an earlier release included.          *)
(***************************************************************************)
C8_PrimaryGetsEarliest ==
  \A primaryPatientId \in PrimaryPool, familyMembers \in MemberLists, date \in Dates :
    \A r \in {FamilyResult(primaryPatientId, familyMembers, date)} :
      r.ok => \A time \in OpenAfterPreemption(primaryPatientId, familyMembers, date) :
                Hour24(r.created[1].time) <= Hour24(time)

(***************************************************************************)
(* C9.  When the preferred day has fewer than N+1 open slots, the slots    *)
(* the pre-emption releases counted, and a later day has at least N+1,     *)
(* bookFamily returns the InsufficientSlots result with a later date that  *)
(* has at least N+1 open and its first N+1 slots, and changes nothing: no  *)
(* appointment created or cancelled, no slot list, patient or family-ref   *)
(* changed.                                                                *)
(***************************************************************************)
LaterDayFits(preferredDate, totalSlotsNeeded) ==
  \E d \in DOMAIN availableSlots :
    /\ availableSlots[d].date > preferredDate
    /\ Len(availableSlots[d].slots) >= totalSlotsNeeded

ProposesLaterDay(r, preferredDate, totalSlotsNeeded) ==
  /\ ~r.ok
  /\ r.tag = "insufficient_slots"
  /\ r.needed = totalSlotsNeeded
  /\ r.altDate > preferredDate
  /\ Len(SlotsOn(availableSlots, r.altDate)) >= totalSlotsNeeded
  /\ r.altSlots = SubSeq(SlotsOn(availableSlots, r.altDate), 1, totalSlotsNeeded)
  /\ r.created = <<>>
  /\ r.db = Stores

C9_InsufficientAfterPreemption ==
  \A primaryPatientId \in PrimaryPool, familyMembers \in MemberLists, date \in Dates :
    (/\ ValidParty(primaryPatientId, familyMembers)
     /\ Cardinality(OpenAfterPreemption(primaryPatientId, familyMembers, date))
          < Len(familyMembers) + 1
     /\ LaterDayFits(date, Len(familyMembers) + 1))
    => \A r \in {FamilyResult(primaryPatientId, familyMembers, date)} :
         ProposesLaterDay(r, date, Len(familyMembers) + 1)

\* the same with the open slots counted as the day's list stands before the call
C9_InsufficientAsListed ==
  \A primaryPatientId \in PrimaryPool, familyMembers \in MemberLists, date \in Dates :
    (/\ ValidParty(primaryPatientId, familyMembers)
     /\ Len(SlotsOn(availableSlots, date)) < Len(familyMembers) + 1
     /\ LaterDayFits(date, Len(familyMembers) + 1))
    => \A r \in {FamilyResult(primaryPatientId, familyMembers, date)} :
         ProposesLaterDay(r, date, Len(familyMembers) + 1)

\* an InsufficientSlots return for a party whose primary holds, untouched, an
\* appointment on the preferred day
C9_Witness ==
  /\ last.op = "bookFamily" /\ last.tag = "insufficient_slots"
  /\ last.altDate > last.date
  /\ Len(last.altSlots) = Len(last.members) + 1
  /\ \E i \in DOMAIN appointments :
       /\ IsActive(appointments[i])
       /\ appointments[i].patientId = last.patientId
       /\ appointments[i].date = last.date
       /\ appointments[i].cancelReason = ""

(***************************************************************************)
(* C10.  The alternative date of an InsufficientSlots result is the        *)
(* nearest later date: the least date after the preferred one among the    *)
(* days with at least needed open slots, whatever the order the days are   *)
(* stored in.                                                              *)
(***************************************************************************)
C10_AlternativeIsNearest ==
  (last.op = "bookFamily" /\ last.tag = "insufficient_slots")
  => /\ last.altDate > last.date
     /\ Len(SlotsOn(availableSlots, last.altDate)) >= last.needed
     /\ \A d \in DOMAIN availableSlots :
          (/\ availableSlots[d].date > last.date
           /\ Len(availableSlots[d].slots) >= last.needed)
          => last.altDate <= availableSlots[d].date

(***************************************************************************)
(* C11.  Family pre-emption.  A valid bookFamily succeeds exactly when the *)
(* preferred day has N+1 open slots with the party's own same-day slots    *)
(* counted; when it succeeds every non-cancelled appointment of the day    *)
(* that belongs to the primary or to a listed member on file under the     *)
(* primary's phone is cancelled with reason "overwritten_by_family_booking"*)
(* and nothing else of the earlier ledger changes, the new appointments    *)
(* take slots among those open after the release, and, when the listed     *)
(* names differ from one another and from the primary's name whatever the  *)
(* letter case, the primary and each listed member hold exactly one        *)
(* non-cancelled appointment on the day.                                   *)
(***************************************************************************)
PrimaryName(primaryPatientId) ==
  patients[PatientIndex(patients, primaryPatientId)].fullName

\* names that differ as typed
NamesDiffer(primaryPatientId, familyMembers) ==
  /\ \A j, k \in DOMAIN familyMembers :
       j # k => familyMembers[j].name # familyMembers[k].name
  /\ \A k \in DOMAIN familyMembers :
       familyMembers[k].name # PrimaryName(primaryPatientId)

\* names that differ whatever the letter case
NamesDifferAnyCase(primaryPatientId, familyMembers) ==
  /\ \A j, k \in DOMAIN familyMembers :
       j # k => Lower(familyMembers[j].name) # Lower(familyMembers[k].name)
  /\ \A k \in DOMAIN familyMembers :
       Lower(familyMembers[k].name) # Lower(PrimaryName(primaryPatientId))

Preempted(r, primaryPatientId, familyMembers, date) ==
  \A i \in DOMAIN appointments :
    IF /\ IsActive(appointments[i])
       /\ appointments[i].date = date
       /\ appointments[i].patientId \in PartyOnFile(primaryPatientId, familyMembers)
    THEN r.db.appointments[i] =
           [appointments[i] EXCEPT !.status = "cancelled",
                                   !.cancelReason = "overwritten_by_family_booking"]
    ELSE r.db.appointments[i] = appointments[i]

\* every patient of the new appointments holds one non-cancelled appointment
\* on the date, and the party has one patient per person
OneEach(r, familyMembers, date) ==
  /\ Cardinality({r.created[j].patientId : j \in DOMAIN r.created})
       = Len(familyMembers) + 1
  /\ \A j \in DOMAIN r.created :
       Cardinality({i \in DOMAIN r.db.appointments :
                      /\ IsActive(r.db.appointments[i])
                      /\ r.db.appointments[i].date = date
                      /\ r.db.appointments[i].patientId = r.created[j].patientId}) = 1

After(db, request) ==
  LET r == OperationOf([request EXCEPT !.db = db])
  IN IF r.ok THEN r.db ELSE db

SerialStores(first, second) ==
  After(After(inflight.base, inflight.req[first]), inflight.req[second])

BothReturned == \A q \in Requests : inflight.req[q].pc = "done"

C12_Serialized ==
  BothReturned
  => /\ Stores \in {SerialStores(1, 2), SerialStores(2, 1)}
     /\ \A q \in Requests :
          (inflight.req[q].op = "book" /\ inflight.req[q].ok)
          => \E i \in DOMAIN appointments :
               /\ appointments[i].patientId = inflight.req[q].patientId
               /\ appointments[i].date = inflight.req[q].date
               /\ appointments[i].time = inflight.req[q].time

(***************************************************************************)
(* C13.  Two book calls of different patients for the same (date, time),   *)
(* in flight together, never both return success.                          *)
(***************************************************************************)
C13_OneBookingPerSlot ==
  (/\ BothReturned
   /\ \A q \in Requests : inflight.req[q].op = "book"
   /\ inflight.req[1].patientId # inflight.req[2].patientId
   /\ inflight.req[1].date = inflight.req[2].date
   /\ inflight.req[1].time = inflight.req[2].time)
  => ~(inflight.req[1].ok /\ inflight.req[2].ok)

\* a pass of the action loop has just recorded its outcome
Executed == Len(turn'.executed) > Len(turn.executed)
JustExecuted == turn'.executed[Len(turn'.executed)]
FaultSeen == \E k \in DOMAIN turn.executed : turn.executed[k].fault # "none"
Responds == turn.state = "running" /\ turn'.state = "responded"

(***************************************************************************)
(* C14.  A flush that fails part-way leaves the persisted state as it was: *)
(* neither the new or changed appointment nor the slot change is stored.   *)
(***************************************************************************)
C14_FlushIsAtomic ==
  [][(Executed /\ JustExecuted.threw) => StoresUnchanged]_vars

(***************************************************************************)
(* C15.  A failed read or write of a collection is fatal to the request:   *)
(* no later action of the turn runs, the turn ends with the apology, and a *)
(* collection that could not be read is never written back.                *)
(***************************************************************************)
C15_IoFailureIsFatal ==
  [][/\ Executed => ~FaultSeen
     /\ (Responds /\ FaultSeen) => turn'.response = "apology"
     /\ (Executed /\ JustExecuted.fault = "read patients") => UNCHANGED patients
     /\ (Executed /\ JustExecuted.fault = "read appointments")
          => UNCHANGED appointments
     /\ (Executed /\ JustExecuted.fault = "read availableSlots")
          => UNCHANGED availableSlots]_vars

(***************************************************************************)
(* C16.  Within one turn each action token causes at most one invocation   *)
(* of its operation, a book_appointment that failed on a name mismatch     *)
(* while the session holds a patient id included.                          *)
(***************************************************************************)
C16_NoRetry ==
  \A k \in DOMAIN turn.invocations : turn.invocations[k] <= 1

\* the calls that pass the validation of notifyStaffEmergency
ValidReports ==
  {report \in Reports : /\ validatePatientName(report.patientName).valid
                         /\ TrimLength(report.emergencyDetails) >= 5}
ValidContacts == {phone \in ContactPhones : validatePhoneNumber(phone).valid}
TenDigits(phone) == validatePhoneNumber(phone).normalized

\* the pairs of typed phones that normalize to the same ten digits
SamePhone ==
  {phones \in ValidContacts \X ValidContacts :
     TenDigits(phones[1]) = TenDigits(phones[2])}

\* the stored alerts of a phone raised at or after a time
AlertsSince(alerts, digits, since) ==
  {i \in DOMAIN alerts : alerts[i].contactPhone = digits /\ alerts[i].alertedAt >= since}

(***************************************************************************)
(* C17.  Two valid notify calls whose phones normalize to the same ten     *)
(* digits, less than ten minutes apart, with no earlier alert of that      *)
(* phone in the window: the first stores one alert, the second returns     *)
(* success and stores nothing, whatever its name and details.              *)
(***************************************************************************)
C17_EmergencyDedup ==
  \A first \in ValidReports, second \in ValidReports, phones \in SamePhone :
    \E a \in {notifyStaffEmergency(emergencyAlerts, first.patientName,
                                   first.emergencyDetails, phones[1], now)} :
      \A gap \in 0..(TenMinutes - 1) :
        \E b \in {notifyStaffEmergency(a.alerts, second.patientName,
                                       second.emergencyDetails, phones[2],
                                       now + gap)} :
          AlertsSince(emergencyAlerts, TenDigits(phones[1]), now - TenMinutes) = {}
          => /\ a.ok /\ b.ok
             /\ Len(a.alerts) = Len(emergencyAlerts) + 1
             /\ b.alerts = a.alerts
             /\ b.tag = "already_reported"
             /\ Cardinality(AlertsSince(b.alerts, TenDigits(phones[1]),
                                        now - TenMinutes)) = 1

\* a call was suppressed by an alert of the same phone, typed another way,
\* raised minutes earlier under another name and with other details
C17_Witness ==
  /\ last.op = "notify"
  /\ last.ok /\ last.tag = "already_reported"
  /\ \E i \in DOMAIN emergencyAlerts :
       /\ emergencyAlerts[i].contactPhone = TenDigits(last.contactPhone)
       /\ emergencyAlerts[i].contactPhone # last.contactPhone
       /\ emergencyAlerts[i].patientName # last.patientName
       /\ emergencyAlerts[i].emergencyDetails # last.emergencyDetails
       /\ now - emergencyAlerts[i].alertedAt \in 1..(TenMinutes - 1)
  /\ Cardinality(AlertsSince(emergencyAlerts, TenDigits(last.contactPhone), 0)) = 1

\* the patients on file whose phone normalizes to the ten digits of a typed phone
SamePhonePatients(pats, phone) ==
  {i \in DOMAIN pats : TenDigits(pats[i].phone) = TenDigits(phone)}

\* the name, the date of birth and the insurance pass their validations
OtherFieldsValid(s) ==
  /\ validatePatientName(s.fullName).valid
  /\ validateDateOfBirth(s.dateOfBirth).valid
  /\ validateInsurance(s.insurance).valid

\* register answers with the duplicate error, carrying a patient of that
\* phone, and adds nothing
DuplicateAnswer(r, s) ==
  /\ ~r.ok /\ r.tag = "duplicate"
  /\ r.patients = patients
  /\ \E i \in SamePhonePatients(patients, s.phone) : r.patient = patients[i]

\* no two patients created by registration hold the same ten digits
RegisteredPhonesDiffer ==
  \A i \in DOMAIN patients, j \in DOMAIN patients :
     (i # j /\ patients[i].id \in registered /\ patients[j].id \in registered)
     => TenDigits(patients[i].phone) # TenDigits(patients[j].phone)

(***************************************************************************)
(* C18.  A registration whose name, date of birth and insurance are valid  *)
(* and whose phone normalizes to the ten digits of a patient on file fails *)
(* with the duplicate error carrying that patient's record and adds no     *)
(* patient; no two patients created by registration hold the same ten      *)
(* digits.                                                                 *)
(***************************************************************************)
C18_DuplicateRejected ==
  /\ \A s \in Submissions :
       \E r \in {registerNewPatient(patients, s.fullName, s.phone, s.dateOfBirth,
                                    s.insurance)} :
          (/\ OtherFieldsValid(s)
           /\ validatePhoneNumber(s.phone).valid
           /\ SamePhonePatients(patients, s.phone) # {})
          => DuplicateAnswer(r, s)
  /\ RegisteredPhonesDiffer

\* C18 as stated: the duplicate error whenever a patient on file has the
\* ten digits of the submitted phone, whatever the other fields
C18_DuplicateWheneverPhoneOnFile ==
  /\ \A s \in Submissions :
       \E r \in {registerNewPatient(patients, s.fullName, s.phone, s.dateOfBirth,
                                    s.insurance)} :
          (/\ validatePhoneNumber(s.phone).valid
           /\ SamePhonePatients(patients, s.phone) # {})
          => DuplicateAnswer(r, s)
  /\ RegisteredPhonesDiffer

\* a registration was refused for a phone, typed another way, that two
\* patients on file hold: one registered, one created by a family booking
C18_Witness ==
  /\ last.op = "register"
  /\ last.tag = "duplicate"
  /\ last.patient.phone # last.phone
  /\ last.patient.id \in registered
  /\ \E i \in SamePhonePatients(patients, last.phone) :
       patients[i].id \notin registered
  /\ Cardinality(registered) > Len(SeedPatients)

(***************************************************************************)
(* C19.  Patient identifiers are unique and stable: the patients on file   *)
(* are numbered 1, 2, ... in the order of their creation, no two           *)
(* identifiers are the same text, each new patient is numbered by the      *)
(* count of the patients before it plus one, no patient is removed and no  *)
(* identifier changes.                                                     *)
(***************************************************************************)
C19_IdsUniqueAndStable ==
  /\ [](/\ \A i \in DOMAIN patients : patients[i].id = i
        /\ \A i \in DOMAIN patients, j \in DOMAIN patients :
              i # j => PatientIdText(patients[i].id) # PatientIdText(patients[j].id))
  /\ [][/\ Len(patients') >= Len(patients)
        /\ \A i \in DOMAIN patients :
              /\ patients'[i].id = patients[i].id
              /\ patients'[i].fullName = patients[i].fullName
              /\ patients'[i].phone = patients[i].phone
        /\ \A i \in (Len(patients) + 1)..Len(patients') : patients'[i].id = i]_vars

\* the file is full: patients were added by registration and by family bookings
C19_Witness ==
  /\ Len(patients) = MaxRegistry
  /\ Cardinality(registered) > Len(SeedPatients)
  /\ \E i \in DOMAIN patients : patients[i].id \notin registered
  /\ last.op = "register" /\ last.ok

ActiveOf(appts, patientId) ==
  {i \in DOMAIN appts : appts[i].patientId = patientId /\ IsActive(appts[i])}

(***************************************************************************)
(* C21.  cancelAll(patientId): with no non-cancelled appointment of the    *)
(* patient it fails with NoActiveAppointments and changes nothing;         *)
(* otherwise every such appointment ends cancelled with its slot in its    *)
(* day's list, the patient has none left, and a second cancelAll fails.    *)
(***************************************************************************)
C21_CancelAll ==
  \A patientId \in BookerPool :
    \E r \in {cancelAllAppointments(Stores, patientId)} :
      IF ActiveOf(appointments, patientId) = {}
      THEN ~r.ok /\ r.tag = "no_active_appointments" /\ r.db = Stores
      ELSE /\ r.ok
           /\ Len(r.db.appointments) = Len(appointments)
           /\ \A i \in ActiveOf(appointments, patientId) :
                /\ r.db.appointments[i].status = "cancelled"
                /\ IsOpen(r.db.availableSlots, appointments[i].date,
                          appointments[i].time)
           /\ ActiveOf(r.db.appointments, patientId) = {}
           /\ \E again \in {cancelAllAppointments(r.db, patientId)} :
                ~again.ok /\ again.tag = "no_active_appointments" /\ again.db = r.db

\* a cancelAll has just cancelled two appointments of one patient
C21_Witness ==
  /\ last.op = "cancelAll" /\ last.ok
  /\ ActiveOf(appointments, last.patientId) = {}
  /\ Cardinality({i \in DOMAIN appointments :
                    /\ appointments[i].patientId = last.patientId
                    /\ appointments[i].status = "cancelled"
                    /\ appointments[i].cancelReason = ""
                    /\ IsOpen(availableSlots, appointments[i].date,
                              appointments[i].time)}) = 2

(***************************************************************************)
(* C22.  Appointment lifecycle: no appointment record leaves the ledger,   *)
(* every status is scheduled, confirmed or cancelled, and no operation     *)
(* sets a cancelled appointment back to scheduled or confirmed.            *)
(***************************************************************************)
C22_Lifecycle ==
  /\ [](\A i \in DOMAIN appointments :
          appointments[i].status \in {"scheduled", "confirmed", "cancelled"})
  /\ [][/\ Len(appointments') >= Len(appointments)
        /\ \A i \in DOMAIN appointments :
              /\ appointments'[i].id = appointments[i].id
              /\ appointments[i].status = "cancelled"
                 => appointments'[i].status = "cancelled"]_vars

\* a cancelled appointment was rescheduled and is still cancelled
C22_Witness ==
  /\ last.op = "reschedule" /\ last.ok
  /\ \E i \in DOMAIN appointments :
       /\ appointments[i].id = last.id
       /\ appointments[i].status = "cancelled"
       /\ appointments[i].rescheduledFrom # NoPrior

\* a pass of the action loop: the turn moves on to its next token
Pass == turn.state = "running" /\ turn'.state = "running"
PassedToken == turn.tokens[turn.next]

\* the outcome recorded is that of the operation run on the stores as the
\* passes before it left them, and the stores hold its effect
RanOnStores(token) ==
  \E r \in {Invoke(Stores, token)} :
     /\ JustExecuted.ok = r.ok
     /\ JustExecuted.tag = r.tag
     /\ patients' = r.db.patients
     /\ appointments' = r.db.appointments
     /\ availableSlots' = r.db.availableSlots

(***************************************************************************)
(* C23.  The action tokens of a turn are executed from left to right, one  *)
(* after the other, each on the stores as the one before left them; the    *)
(* results are listed in token order; a token whose payload is not valid   *)
(* JSON leaves no result and no store change and the next token still runs.*)
(***************************************************************************)
C23_TokensInOrder ==
  /\ [](turn.state = "running" =>
          /\ {turn.executed[j].token : j \in DOMAIN turn.executed}
               = {k \in 1..(turn.next - 1) : turn.tokens[k].parses}
          /\ \A i \in DOMAIN turn.executed, j \in DOMAIN turn.executed :
                i < j => turn.executed[i].token < turn.executed[j].token
          /\ \A j \in DOMAIN turn.executed :
                turn.executed[j].fn = turn.tokens[turn.executed[j].token].fn)
  /\ [][/\ Pass =>
             /\ turn'.next = turn.next + 1
             /\ turn'.tokens = turn.tokens
             /\ IF PassedToken.parses
                THEN /\ Executed
                     /\ Len(turn'.executed) = Len(turn.executed) + 1
                     /\ JustExecuted.token = turn.next
                     /\ JustExecuted.fault = "none" => RanOnStores(PassedToken)
                ELSE turn'.executed = turn.executed /\ StoresUnchanged
        /\ Responds => turn.next = Len(turn.tokens) + 1]_vars

\* the second token of a turn has cancelled the appointment that the first
\* token of the same turn booked
C23_Witness ==
  /\ turn.state = "running"
  /\ Len(turn.executed) = 2
  /\ turn.executed[1].fn = "book_appointment" /\ turn.executed[1].ok
  /\ turn.executed[2].fn = "cancel_appointment" /\ turn.executed[2].ok
  /\ Len(appointments) = 1
  /\ appointments[1].id = turn.tokens[2].id
  /\ appointments[1].status = "cancelled"

(***************************************************************************)
(* C24.  A well-formed token that names none of the nine operations leaves *)
(* an unknown-operation result at its place in the list of results,        *)
(* changes no store, and the turn goes on with its next token.             *)
(***************************************************************************)
C24_UnknownOperation ==
  [][(Pass /\ PassedToken.parses /\ PassedToken.fn \notin OperationNames)
     => /\ Executed
        /\ Len(turn'.executed) = Len(turn.executed) + 1
        /\ JustExecuted.token = turn.next
        /\ JustExecuted.fn = PassedToken.fn
        /\ JustExecuted.tag = "unknown_function"
        /\ ~JustExecuted.ok /\ ~JustExecuted.threw
        /\ StoresUnchanged
        /\ turn'.next = turn.next + 1]_vars

\* a booking went through after an unknown operation of the same turn
C24_Witness ==
  /\ turn.state = "running"
  /\ Len(turn.executed) = 2
  /\ turn.executed[1].tag = "unknown_function"
  /\ turn.executed[1].token = 1
  /\ turn.executed[2].fn = "book_appointment" /\ turn.executed[2].ok
  /\ turn.executed[2].token = 2

\* the appointments of the ledger that the last call created
CreatedByLast ==
  {i \in DOMAIN appointments : \E k \in DOMAIN last.created : appointments[i] = last.created[k]}

(***************************************************************************)
(* C25.  After a successful bookFamily every appointment it created links  *)
(* to the primary patient's id, and one lookup by the primary's phone      *)
(* returns the non-cancelled appointments of the whole party.              *)
(***************************************************************************)
C25_OneLookupWholeParty ==
  (last.op = "bookFamily" /\ last.ok)
  => LET primary == patients[PatientIndex(patients, last.patientId)]
     IN /\ \A i \in CreatedByLast : appointments[i].patientId = last.patientId
        /\ \A i \in CreatedByLast :
              IsActive(appointments[i])
              => i \in searchPatientAppointments(Stores, primary.phone)

\* the patients of a file that have a name, whatever its letter case, and a phone
Namesakes(pats, name, phone) ==
  {i \in DOMAIN pats : Lower(pats[i].fullName) = Lower(name) /\ pats[i].phone = phone}

C27_ListsDeduplicated ==
  \A d \in DOMAIN availableSlots :
    \A time \in Labels : Count(availableSlots[d].slots, time) <= 1

\* a slot was released while the list already held it: one appointment was
\* rescheduled away from a slot that another one then held and gave back
C27_Witness ==
  /\ last.op = "cancel" /\ last.ok
  /\ \E i \in DOMAIN appointments, j \in DOMAIN appointments :
       /\ i # j
       /\ ~IsActive(appointments[i]) /\ ~IsActive(appointments[j])
       /\ appointments[j].id = last.id
       /\ appointments[i].rescheduledFrom =
            [date |-> appointments[j].date, time |-> appointments[j].time]
       /\ ~IsOpen(availableSlots, appointments[i].date, appointments[i].time)
       /\ Count(SlotsOn(availableSlots, appointments[j].date), appointments[j].time) = 1

\* the labels of a list come in ascending time of day
AscendingByTimeOfDay(slots) ==
  \A i \in DOMAIN slots, j \in DOMAIN slots :
     i < j => Hour24(slots[i]) <= Hour24(slots[j])

(***************************************************************************)
(* C28.  Starting from day lists in ascending time-of-day order, every     *)
(* day's list is still in ascending time-of-day order after any operation  *)
(* that puts a time label back.                                            *)
(***************************************************************************)
C28_ListsStaySorted ==
  \A d \in DOMAIN availableSlots : AscendingByTimeOfDay(availableSlots[d].slots)

\* no two non-cancelled appointments of a ledger share a (date, time)
NoTwoHold(appts) ==
  \A i \in DOMAIN appts :
     IsActive(appts[i]) => Holders(appts, appts[i].date, appts[i].time) = {i}

(***************************************************************************)
(* C30.  No double booking: after any sequence of serialized book,         *)
(* bookFamily, cancel, cancelAll and reschedule calls, and after one more  *)
(* book call, no two non-cancelled appointments have the same (date,       *)
(* time).                                                                  *)
(***************************************************************************)
C30_NoDoubleBooking ==
  /\ NoTwoHold(appointments)
  /\ \A patientId \in BookerPool, patientName \in NamePool, date \in Dates,
        time \in Labels :
       \E r \in {bookAppointment(Stores, patientId, patientName, date, time)} :
          NoTwoHold(r.db.appointments)

(***************************************************************************)
(* C29.  After every chat request, answered or ended in the error path,    *)
(* the context stored for a conversation id in the in-memory map and in    *)
(* the session holds at most 20 messages.                                  *)
(***************************************************************************)
C29_ContextBounded ==
  \A convId \in ConversationIds :
     /\ Len(conversationContexts[convId]) <= ContextWindow
     /\ Len(sessionCache[convId]) <= ContextWindow

(***************************************************************************)
(* C31.  A book call that fails (patient not on file, name not equal to    *)
(* the stored full name, no SlotDay for the date, time not open) leaves    *)
(* patients, appointments and slot availability unchanged: when the slot   *)
(* is unavailable the patient's same-day appointment is not cancelled and  *)
(* its slot is not released.                                               *)
(***************************************************************************)
C31_BookStep ==
  (last'.op = "book" /\ ~last'.ok) => StoresUnchanged

C31_FailedBookChangesNothing ==
  /\ [](\A patientId \in BookerPool, patientName \in NamePool, date \in Dates,
           time \in Labels :
          \E r \in {bookAppointment(Stores, patientId, patientName, date, time)} :
             ~r.ok => r.db = Stores)
  /\ [][C31_BookStep]_vars

\* a booking was refused for its slot while the patient holds an appointment
\* on that date, which is still active with its slot still closed
C31_Witness ==
  /\ last.op = "book" /\ ~last.ok /\ last.tag = "slot_unavailable"
  /\ \E i \in DOMAIN appointments :
       /\ appointments[i].patientId = last.patientId
       /\ appointments[i].date = last.date
       /\ IsActive(appointments[i])
       /\ ~IsOpen(availableSlots, appointments[i].date, appointments[i].time)

(***************************************************************************)
(* C32.  After any sequence of serialized book, bookFamily, cancel,        *)
(* cancelAll and reschedule calls, every patient has at most one           *)
(* non-cancelled appointment on any given date.                            *)
(***************************************************************************)
C32_OneActivePerPatientAndDate ==
  \A i, j \in DOMAIN appointments :
     (/\ IsActive(appointments[i]) /\ IsActive(appointments[j])
      /\ appointments[i].patientId = appointments[j].patientId
      /\ appointments[i].date = appointments[j].date) => i = j

(***************************************************************************)
(* C33.  A patient who holds a non-cancelled appointment at (date, time)   *)
(* can book that (date, time) again: the call succeeds, the old            *)
(* appointment becomes cancelled with reason "overwritten_by_new_booking", *)
(* a new appointment with a new id holds the slot, and the slot is absent  *)
(* from the day's list afterwards.                                         *)
(***************************************************************************)
C33_RebookOwnSlot ==
  \A p \in DOMAIN patients, i \in DOMAIN appointments :
     (IsActive(appointments[i]) /\ appointments[i].patientId = patients[p].id) =>
        \E r \in {bookAppointment(Stores, patients[p].id, patients[p].fullName,
                                  appointments[i].date, appointments[i].time)} :
           /\ r.ok
           /\ r.db.appointments[i].status = "cancelled"
           /\ r.db.appointments[i].cancelReason = "overwritten_by_new_booking"
           /\ Len(r.created) = 1
           /\ r.created[1].id \notin KnownIds
           /\ \E k \in Holders(r.db.appointments, appointments[i].date,
                               appointments[i].time) :
                 r.db.appointments[k] = r.created[1]
           /\ ~IsOpen(r.db.availableSlots, appointments[i].date, appointments[i].time)

\* the same slot was booked again by its holder: the old appointment is
\* cancelled as overwritten, the new one holds the slot, the slot is closed
C33_Witness ==
  /\ last.op = "book" /\ last.ok
  /\ \E i, k \in DOMAIN appointments :
       /\ i # k
       /\ appointments[i].patientId = last.patientId
       /\ appointments[i].date = last.date /\ appointments[i].time = last.time
       /\ appointments[i].cancelReason = "overwritten_by_new_booking"
       /\ appointments[k] = last.created[1]
       /\ appointments[k].date = last.date /\ appointments[k].time = last.time
       /\ IsActive(appointments[k])
       /\ ~IsOpen(availableSlots, last.date, last.time)

\* what a call may have changed: appointments of the party on the date,
\* new appointments on the date, the slot list of the date
WithinFrame(r, party, date) ==
  /\ Len(r.db.appointments) >= Len(appointments)
  /\ \A i \in DOMAIN appointments :
       r.db.appointments[i] # appointments[i]
         => appointments[i].date = date /\ appointments[i].patientId \in party
  /\ \A i \in DOMAIN r.db.appointments :
       i > Len(appointments) => r.db.appointments[i].date = date
  /\ Len(r.db.availableSlots) = Len(availableSlots)
  /\ \A d \in DOMAIN availableSlots :
       /\ r.db.availableSlots[d].date = availableSlots[d].date
       /\ availableSlots[d].date # date => r.db.availableSlots[d] = availableSlots[d]

(***************************************************************************)
(* C34.  book and bookFamily change only what belongs to the booking party *)
(* on the requested date: no appointment of a patient outside the party,   *)
(* no appointment on another date and no slot list of another date is      *)
(* changed.                                                                *)
(***************************************************************************)
C34_BookingFrame ==
  /\ \A patientId \in BookerPool, patientName \in NamePool, date \in Dates,
        time \in Labels :
       WithinFrame(bookAppointment(Stores, patientId, patientName, date, time),
                   {patientId}, date)
  /\ \A primaryPatientId \in PrimaryPool, familyMembers \in MemberLists,
        date \in Dates :
       WithinFrame(FamilyResult(primaryPatientId, familyMembers, date),
                   PartyOnFile(primaryPatientId, familyMembers), date)

\* a booking went through on a date where a patient outside the party holds
\* a non-cancelled appointment
C34_Witness ==
  /\ last.op \in {"book", "bookFamily"} /\ last.ok
  /\ \E i \in DOMAIN appointments :
       /\ IsActive(appointments[i])
       /\ appointments[i].date = last.date
       /\ appointments[i].patientId
            \notin PartyOnFile(last.patientId, last.members)
       /\ \A j \in DOMAIN last.created : last.created[j] # appointments[i]

\* a notify request returns
NotifyReturns ==
  \E q \in Requests :
     /\ inflight.req[q].op = "notify"
     /\ inflight.req[q].pc = "read"
     /\ inflight'.req[q].pc = "done"

(***************************************************************************)
(* C35.  notify_staff_emergency never changes patients, appointments or    *)
(* slot availability, also when a booking or a cancellation completes      *)
(* between notify's read and notify's write.                               *)
(***************************************************************************)
C35_NotifyLeavesStores == [][NotifyReturns => StoresUnchanged]_vars

\* the time of the most recent stored alert of a phone, -1 when it has none
LastAlertOf(alerts, digits) ==
  LET times == {alerts[i].alertedAt : i \in AlertsSince(alerts, digits, 0)}
  IN IF times = {} THEN -1 ELSE CHOOSE t \in times : \A u \in times : u <= t

(***************************************************************************)
(* C36.  The dedup window is measured from the last stored alert: a        *)
(* suppressed notify stores nothing, a valid notify arriving more than 10  *)
(* minutes after the most recent stored alert of its phone is stored, and  *)
(* any two stored alerts of one phone are more than 10 minutes apart.      *)
(***************************************************************************)
C36_WindowFromLastStored ==
  /\ \A i, j \in DOMAIN emergencyAlerts :
       (i < j /\ emergencyAlerts[i].contactPhone = emergencyAlerts[j].contactPhone)
         => emergencyAlerts[j].alertedAt - emergencyAlerts[i].alertedAt > TenMinutes
  /\ \A report \in ValidReports, phone \in ValidContacts :
       \E stored \in {LastAlertOf(emergencyAlerts, TenDigits(phone))} :
         \A clock \in now..(now + TenMinutes) :
           \E r \in {notifyStaffEmergency(emergencyAlerts, report.patientName,
                                          report.emergencyDetails, phone, clock)} :
              IF stored >= 0 /\ clock - stored <= TenMinutes
              THEN r.tag = "already_reported" /\ r.alerts = emergencyAlerts
              ELSE r.tag = "alerted" /\ Len(r.alerts) = Len(emergencyAlerts) + 1

\* a call was suppressed, and a call of the same phone less than 10 minutes
\* after it, more than 10 minutes after the stored alert, is stored
C36_Witness ==
  /\ last.op = "notify" /\ last.tag = "already_reported"
  /\ \E stored \in {LastAlertOf(emergencyAlerts, TenDigits(last.contactPhone))} :
       \E clock \in now..(now + TenMinutes - 1) :
          /\ stored >= 0
          /\ clock - stored > TenMinutes
          /\ notifyStaffEmergency(emergencyAlerts, last.patientName,
                                  last.emergencyDetails, last.contactPhone,
                                  clock).tag = "alerted"

(***************************************************************************)
(* C37.  Appointment identifiers are unique: after any sequence of         *)
(* serialized book and bookFamily calls, two bookFamily calls that read    *)
(* the same clock value included, no two appointment records share an id.  *)
(***************************************************************************)
C37_AppointmentIdsUnique ==
  \A i, j \in DOMAIN appointments :
     appointments[i].id = appointments[j].id => i = j

\* an operation is run while the response is built
RunsInResponse == Responds /\ turn'.executed # <<>>

(***************************************************************************)
(* C38.  When the session holds a patient id, a book_family_appointments   *)
(* action is executed for that patient as primary whatever the token       *)
(* carries; the session patient is only ever set from a search_patient     *)
(* result that found a patient; every other operation is executed with     *)
(* exactly the arguments parsed from the token.                            *)
(***************************************************************************)
C38_SessionPatient ==
  [][/\ (Pass /\ Executed) =>
          IF PassedToken.fn = "book_family_appointments" /\ turn.patientId # 0
          THEN JustExecuted.args = [PassedToken EXCEPT !.patientId = turn.patientId]
          ELSE JustExecuted.args = PassedToken
     /\ turn'.patientId # turn.patientId =>
          /\ Responds
          /\ turn.executed # <<>>
          /\ \E e \in {turn.executed[Len(turn.executed)]} :
                /\ e.fn = "search_patient" /\ e.ok
                /\ e.found.id = turn'.patientId
                /\ \E p \in DOMAIN patients : patients[p].id = turn'.patientId
     /\ RunsInResponse =>
          turn'.executed[1].args = turn.tokens[turn'.executed[1].token]]_vars

\* the window of a phrase lies within the window of another
Within(inner, outer) == outer.start <= inner.start /\ inner.end <= outer.end

\* the branch a phrase is resolved by
ResolvedAs(phrase, keyword) ==
  /\ "later this week" \notin phrase /\ "end of this week" \notin phrase
  /\ keyword \in phrase
  /\ keyword = "next month" => "next week" \notin phrase

(***************************************************************************)
(* C39.  For every recognized subjective-date phrase the resolved window   *)
(* has start <= end, and "early" and "late" only narrow the window: the    *)
(* window of "early next week" and of "late next week" lies within that of *)
(* "next week" (reference date + 7 days to reference date + 14 days), and  *)
(* likewise for "next month".                                              *)
(***************************************************************************)
C39_ModifiersNarrow ==
  last.op = "parseSubjectiveDate" =>
    /\ last.window.start <= last.window.end
    /\ ResolvedAs(last.phrase, "next week") =>
         /\ Within(last.window, parseSubjectiveDate({"next week"}, last.zone))
         /\ Within(last.window, Window(ReferenceDate(last.zone) + 7,
                                       ReferenceDate(last.zone) + 14))
    /\ ResolvedAs(last.phrase, "next month") =>
         Within(last.window, parseSubjectiveDate({"next month"}, last.zone))

====
